---- MODULE Spec2Model ----
(***************************************************************************)
(* A model of the sudoku repository: the Board/Cell data model             *)
(* (src/sudoku/board.py), the iterative backtracking Solver                *)
(* (src/engines/Solver.py) and the Reducer (src/sudoku/engines/reducer.py).*)
(*                                                                         *)
(* Cell objects live in a heap: every Cell is a reference (a number) and   *)
(* the two mutable fields of a Cell, .symbol and .candidates, are the heap *)
(* functions `symbol` and `candidates`.  A Board is a record of references *)
(* (its cells array and its rows/cols/boxes lookup tables), so sharing of  *)
(* Cell objects between two boards is expressible.                         *)
(***************************************************************************)
EXTENDS Integers, Sequences, FiniteSets, TLC

VARIABLES
    board,              \* the Board object the Solver / Reducer was constructed with
    symbol,             \* heap: Cell reference -> cell.symbol (None when unassigned)
    candidates,         \* heap: Cell reference -> cell.candidates (None when never set)
    pc,                 \* "idle" | "loop" (inside solve_backtrack) | "rn_loop" | "done"
    op,                 \* the operation that was called: its name, its cell argument, its count
    result,             \* the value the finished operation returned
    empty_cells,        \* solve_backtrack: the shuffled [[Cell, candidate_index], ...]
    cell_index,         \* solve_backtrack: current position in empty_cells
    filled_cells,       \* reduce_n_cells: the cells the for loop has not reached yet
    num_cells_reduced,  \* reduce_n_cells: successful reductions so far
    symbol0,            \* history: the heap when the operation was called
    touched,            \* history: the cells written since the operation was called
    copied_board,       \* the Board object returned by board.copy() (NoBoard before)
    config,             \* per board: symbols, empty_symbol, size, num_bands, num_stacks
    attempts            \* history: how often reduce_cell was called on each cell

vars == <<board, symbol, candidates, pc, op, result, empty_cells, cell_index,
          filled_cells, num_cells_reduced, symbol0, touched, copied_board, config,
          attempts>>

-----------------------------------------------------------------------------
(* Python values *)

\* Python's None (an unassigned cell.symbol, a never-set cell.candidates).
None == "None"

Range(s) == {s[i] : i \in 1..Len(s)}

\* All orders in which the members of a finite set can be listed:
\* list(a_set) and random.shuffle(a_list) each yield one of them.
Lists(S) ==
    {l \in [1..Cardinality(S) -> S] : \A i, j \in 1..Cardinality(S) : l[i] = l[j] => i = j}

\* random.shuffle(seq): every permutation of the sequence.
shuffle(seq) ==
    {[i \in 1..Len(seq) |-> seq[p[i]]] : p \in Lists(1..Len(seq))}

-----------------------------------------------------------------------------
(* sudoku/utils.py *)

\* int(math.sqrt(n))
isqrt(n) == CHOOSE i \in 0..n : i * i <= n /\ (i + 1) * (i + 1) > n

RECURSIVE closest_factors_from(_, _)
\* the loop `for i in range(sqrt_n, 0, -1)` and the fall-through return
closest_factors_from(n, i) ==
    IF i <= 0 THEN <<1, n>>
    ELSE IF n % i = 0 THEN <<i, n \div i>>
    ELSE closest_factors_from(n, i - 1)

\* closest_factors with the loop counting up from 1: the first divisor found.
closest_factors_first_divisor(n) == <<1, n>>

closest_factors(n) == closest_factors_from(n, isqrt(n))

-----------------------------------------------------------------------------
(* sudoku/board.py: configuration of the boards of this model *)

\* Board.symbols for symbols=["1", "2", "3", "4"]: the sorted list of string tokens.
symbols == <<"1", "2", "3", "4">>

\* Board.empty_symbol (the default).
empty_symbol == "0"

\* Board.size
size == Len(symbols)

\* Board.num_bands, Board.num_stacks
num_bands == closest_factors(size)[1]
num_stacks == closest_factors(size)[2]

\* Argument values of two Python types: the str with the given text, and the
\* int whose decimal form is the given text.
PyStr(text) == [type |-> "str", text |-> text]
PyInt(text) == [type |-> "int", text |-> text]

\* str(value)
str(value) == value.text

\* value == a_str, where a_str is a Python str: an int never equals a str.
py_eq(value, a_str) == value.type = "str" /\ value.text = a_str

\* value in strs (a list or set of Python strs)
py_in(value, strs) == \E s \in strs : py_eq(value, s)

\* The one-character strings of this model in code point order, and ord().
CodePoints ==
    <<".", "0", "1", "2", "3", "4", "5", "6", "7", "8", "9", "A", "B", "C", "x">>
ord(ch) == CHOOSE i \in 1..Len(CodePoints) : CodePoints[i] = ch

\* sorted(strs) for one-character strings.
sorted(strs) == SortSeq(strs, LAMBDA a, b : ord(a) < ord(b))

\* empty_symbol_conflict without the test: every empty_symbol is accepted.
empty_symbol_conflict_unchecked(empty_symbol_arg, self_symbols) == FALSE

\* Board.__init__, line 123: `empty_symbol in self.symbols`
empty_symbol_conflict(empty_symbol_arg, self_symbols) ==
    py_in(empty_symbol_arg, Range(self_symbols))

\* The ValueError raised by Board.__init__ or Board.set_initial_state.
ValueError(what, index, token) ==
    [error |-> "ValueError", what |-> what, index |-> index, token |-> token]
IsError(r) == "error" \in DOMAIN r

\* Board.__init__, lines 120-136: the configuration the constructor stores, or
\* the error it raises before a cell is created.
board_config(symbols_arg, empty_symbol_arg) ==
    LET self_symbols == sorted([i \in 1..Len(symbols_arg) |-> str(symbols_arg[i])])
    IN  IF empty_symbol_conflict(empty_symbol_arg, self_symbols)
        THEN ValueError("empty_symbol", 0, str(empty_symbol_arg))
        ELSE [symbols |-> self_symbols,
              empty_symbol |-> str(empty_symbol_arg),
              size |-> Len(self_symbols),
              num_bands |-> closest_factors(Len(self_symbols))[1],
              num_stacks |-> closest_factors(Len(self_symbols))[2]]

\* The configuration of a Board object that does not exist.
NoConfig ==
    [symbols |-> <<>>, empty_symbol |-> "", size |-> 0, num_bands |-> 0, num_stacks |-> 0]

\* The configuration Board.__init__ stores for symbols=["1", "2", "3", "4"] and
\* the default empty_symbol.
DefaultConfig ==
    [symbols |-> symbols, empty_symbol |-> empty_symbol, size |-> size,
     num_bands |-> num_bands, num_stacks |-> num_stacks]

\* (row, col) positions of a board, and their row-major order.
Pos == (0..size - 1) \X (0..size - 1)
RowMajor == [i \in 1..size * size |-> <<(i - 1) \div size, (i - 1) % size>>]

\* Boards alive at the same time: slot 0 is the board under test, slot 1 the
\* board that Board.copy() allocates (for a trial of the Reducer), slot 2 the
\* game board that Sudoku.create copies from its solution.
Slots == {0, 1, 2}
Refs == 1..(Cardinality(Slots) * size * size)

\* box_id with the band count as the stride between rows of boxes.
box_id_band_stride(row, col, bands, stacks) ==
    (row \div stacks) * bands + (col \div bands)

\* initialize_cells, lines 168-170: the box index of the cell at (row, col).
box_id(row, col, bands, stacks) ==
    (row \div stacks) * stacks + (col \div bands)

\* Cell(row=row, col=col, box=box): the Cell object created for (row, col) by the
\* board allocated in `slot`; row, col and box are fixed at creation.
Cell(slot, row, col) == slot * size * size + row * size + col + 1
cell_row(c) == ((c - 1) % (size * size)) \div size
cell_col(c) == (c - 1) % size
cell_box(c) == box_id(cell_row(c), cell_col(c), num_bands, num_stacks)

\* Board.initialize_cells: the cells array and the three lookup tables, all
\* holding the same Cell objects, appended in row-major order.
initialize_cells(slot) ==
    LET created == [i \in 1..size * size |-> Cell(slot, RowMajor[i][1], RowMajor[i][2])]
    IN  [cells |-> [p \in Pos |-> Cell(slot, p[1], p[2])],
         rows  |-> [r \in {cell_row(c) : c \in Range(created)} |->
                        SelectSeq(created, LAMBDA c : cell_row(c) = r)],
         cols  |-> [k \in {cell_col(c) : c \in Range(created)} |->
                        SelectSeq(created, LAMBDA c : cell_col(c) = k)],
         boxes |-> [b \in {cell_box(c) : c \in Range(created)} |->
                        SelectSeq(created, LAMBDA c : cell_box(c) = b)]]

\* Board.initialize_cells for a board of any size (cfg is what __init__ has
\* stored by line 136): Cell number row * size + col + 1 is the one created for
\* (row, col); each table lists its cells in the order they were appended.
initialize_cells_sized(cfg) ==
    LET n == cfg.size
        created == [i \in 1..n * n |->
                       [ref |-> i, row |-> (i - 1) \div n, col |-> (i - 1) % n,
                        box |-> box_id((i - 1) \div n, (i - 1) % n,
                                       cfg.num_bands, cfg.num_stacks)]]
        refs(group) == [i \in 1..Len(group) |-> group[i].ref]
    IN  [cells |-> [p \in (0..n - 1) \X (0..n - 1) |-> p[1] * n + p[2] + 1],
         rows  |-> [r \in {c.row : c \in Range(created)} |->
                        refs(SelectSeq(created, LAMBDA c : c.row = r))],
         cols  |-> [k \in {c.col : c \in Range(created)} |->
                        refs(SelectSeq(created, LAMBDA c : c.col = k))],
         boxes |-> [b \in {c.box : c \in Range(created)} |->
                        refs(SelectSeq(created, LAMBDA c : c.box = b))]]

\* A name that is not bound to a Board object: no cells, no groups.
NoBoard == [cells |-> <<>>, rows |-> <<>>, cols |-> <<>>, boxes |-> <<>>]

\* The cells of a board in the order of `for row in board.cells for cell in row`.
board_cells(b) == [i \in 1..size * size |-> b.cells[RowMajor[i]]]

\* A heap in which no Cell has been given a symbol or a candidate list.
FreshHeap == [c \in Refs |-> None]

\* Board.set_initial_state, the assignment loop (the state has passed validation).
set_initial_state(sym, b, initial_state) ==
    [c \in Refs |->
        IF \E i \in 1..size * size : board_cells(b)[i] = c
        THEN LET i == CHOOSE i \in 1..size * size : board_cells(b)[i] = c
             IN  IF initial_state[i] # empty_symbol THEN initial_state[i] ELSE None
        ELSE sym[c]]

\* The value an operation hands back when it does not raise.
Returned(value) == [value |-> value]

\* An initial_state argument: None, or a flat sequence of tokens (the characters
\* of a str, the items of a list).
NoState == [none |-> TRUE, tokens |-> <<>>]
State(tokens) == [none |-> FALSE, tokens |-> tokens]

\* `if initial_state:` -- None and the empty sequence are both false.
truthy(initial_state_arg) ==
    ~initial_state_arg.none /\ Len(initial_state_arg.tokens) > 0

RECURSIVE first_invalid_from(_, _, _)
\* set_initial_state, lines 230-231: the loop over enumerate(initial_state); the
\* 0-based index of the first token not in `allowed`, or -1.
first_invalid_from(tokens, allowed, i) ==
    IF i >= Len(tokens) THEN -1
    ELSE IF ~py_in(tokens[i + 1], allowed) THEN i
    ELSE first_invalid_from(tokens, allowed, i + 1)

\* check_initial_state reporting the last offending token instead of the first.
check_initial_state_last(cfg, tokens) ==
    LET allowed == Range(cfg.symbols) \cup {cfg.empty_symbol}
        bad == {i \in 0..Len(tokens) - 1 : ~py_in(tokens[i + 1], allowed)}
    IN  IF Len(tokens) # cfg.size * cfg.size
        THEN ValueError("length", Len(tokens), None)
        ELSE IF bad # {}
             THEN LET i == CHOOSE i \in bad : \A j \in bad : j <= i
                  IN  ValueError("symbol", i, tokens[i + 1])
             ELSE Returned(None)

\* set_initial_state, lines 221-235: the two validations that precede the first
\* write; the ValueError raised, or None.
check_initial_state(cfg, tokens) ==
    LET allowed == Range(cfg.symbols) \cup {cfg.empty_symbol}
        i == first_invalid_from(tokens, allowed, 0)
    IN  IF Len(tokens) # cfg.size * cfg.size
        THEN ValueError("length", Len(tokens), None)
        ELSE IF i >= 0 THEN ValueError("symbol", i, tokens[i + 1])
             ELSE Returned(None)

\* set_initial_state_call validating each token just before it is written: the
\* cells before the first offending token are already assigned when it raises.
set_initial_state_call_interleaved(sym, b, cfg, tokens) ==
    LET checked == check_initial_state(cfg, tokens)
        upto == IF IsError(checked) /\ checked.what = "symbol" THEN checked.index ELSE 0
        cells == board_cells(b)
    IN  IF IsError(checked)
        THEN [ret |-> checked,
              symbol |-> [c \in Refs |->
                  IF \E i \in 1..upto : cells[i] = c
                  THEN LET i == CHOOSE i \in 1..upto : cells[i] = c
                       IN  IF str(tokens[i]) # cfg.empty_symbol THEN str(tokens[i]) ELSE None
                  ELSE sym[c]]]
        ELSE [ret |-> checked,
              symbol |-> set_initial_state(sym, b, [i \in 1..Len(tokens) |-> str(tokens[i])])]

\* Board.set_initial_state, the whole call: it raises before any write, or
\* assigns every cell. A token that passed validation equals a str of `allowed`.
set_initial_state_call(sym, b, cfg, tokens) ==
    LET checked == check_initial_state(cfg, tokens)
    IN  IF IsError(checked)
        THEN [ret |-> checked, symbol |-> sym]
        ELSE [ret |-> checked,
              symbol |-> set_initial_state(sym, b, [i \in 1..Len(tokens) |-> str(tokens[i])])]

\* board_str writing a blank for an empty cell, as Cell.__str__ does.
board_str_blank_for_empty(sym, b, cfg) ==
    LET cells == board_cells(b)
        token(c) == IF sym[c] # None THEN sym[c] ELSE " "
        join[i \in 0..Len(cells)] == IF i = 0 THEN "" ELSE join[i - 1] \o token(cells[i])
    IN  join[Len(cells)]

\* Board.__str__: the concatenation, row by row, of each cell's symbol or of
\* the empty symbol.
board_str(sym, b, cfg) ==
    LET cells == board_cells(b)
        token(c) == IF sym[c] # None THEN sym[c] ELSE cfg.empty_symbol
        join[i \in 0..Len(cells)] == IF i = 0 THEN "" ELSE join[i - 1] \o token(cells[i])
    IN  join[Len(cells)]

\* The symbols discarded while scanning one group of cells.
group_symbols(sym, group) == {sym[c] : c \in Range(group)}

\* calculate_cell_candidates without the scan of the cell's box.
calculate_cell_candidates_no_box(sym, b, cell) ==
    (Range(symbols) \ group_symbols(sym, b.rows[cell_row(cell)]))
        \ group_symbols(sym, b.cols[cell_col(cell)])

\* calculate_cell_candidates skipping the cell itself in each scan: only the
\* symbols of the other cells are discarded.
calculate_cell_candidates_skip_self(sym, b, cell) ==
    ((Range(symbols)
        \ group_symbols(sym, SelectSeq(b.rows[cell_row(cell)], LAMBDA c : c # cell)))
        \ group_symbols(sym, SelectSeq(b.cols[cell_col(cell)], LAMBDA c : c # cell)))
        \ group_symbols(sym, SelectSeq(b.boxes[cell_box(cell)], LAMBDA c : c # cell))

\* Board.calculate_cell_candidates
calculate_cell_candidates(sym, b, cell) ==
    ((Range(symbols) \ group_symbols(sym, b.rows[cell_row(cell)]))
        \ group_symbols(sym, b.cols[cell_col(cell)]))
        \ group_symbols(sym, b.boxes[cell_box(cell)])

RECURSIVE candidate_lists(_, _, _)
\* Every way of giving each cell of `cells` a list of its candidate set.
candidate_lists(sym, b, cells) ==
    IF cells = {} THEN {<<>>}
    ELSE LET c == CHOOSE c \in cells : TRUE
         IN  {(c :> l) @@ rest :
                 l \in Lists(calculate_cell_candidates(sym, b, c)),
                 rest \in candidate_lists(sym, b, cells \ {c})}

\* cells_to_update without the test `cell.symbol is None`: every cell.
cells_to_update_all(sym, b) == Range(board_cells(b))

\* calculate_all_empty_cell_candidates, lines 342-344: the cells whose candidate
\* list is overwritten.
cells_to_update(sym, b) == {c \in Range(board_cells(b)) : sym[c] = None}

\* Board.calculate_all_empty_cell_candidates: every empty cell gets
\* list(calculate_cell_candidates(cell)); the order of list(a_set) is arbitrary,
\* so this is the set of candidate heaps the call can leave.
calculate_all_empty_cell_candidates(sym, cands, b) ==
    LET empties == cells_to_update(sym, b)
    IN  {[c \in Refs |-> IF c \in empties THEN f[c] ELSE cands[c]] :
            f \in candidate_lists(sym, b, empties)}

\* Board.copy, line 195: the configuration of
\* Board(symbols=self.symbols, empty_symbol=self.empty_symbol).
copy_config(cfg) ==
    board_config([i \in 1..Len(cfg.symbols) |-> PyStr(cfg.symbols[i])],
                 PyStr(cfg.empty_symbol))

\* copy with fresh Cell objects in its cells array, but the rows, cols and boxes
\* tables of the source (lookup tables shared between Board instances).
copy_shares_lookup_tables(sym, cands, b) ==
    LET new_board == initialize_cells(1)
    IN  [board |-> [cells |-> new_board.cells, rows |-> b.rows, cols |-> b.cols,
                    boxes |-> b.boxes],
         symbol |-> [c \in Refs |->
                        IF \E p \in Pos : new_board.cells[p] = c
                        THEN sym[b.cells[<<cell_row(c), cell_col(c)>>]]
                        ELSE sym[c]],
         candidates |-> [c \in Refs |->
                        IF \E p \in Pos : new_board.cells[p] = c THEN None ELSE cands[c]]]

\* copy returning the board itself: no Cell is allocated, both names share
\* the same Cell objects.
copy_shares_cells(sym, cands, b) ==
    [board |-> b, symbol |-> sym, candidates |-> cands]

\* Board.copy, the new Board being allocated in `slot`: fresh Cell objects,
\* candidates None, the cells carry the symbols of the source board.
copy_to(sym, cands, b, slot) ==
    LET new_board == initialize_cells(slot)
    IN  [board |-> new_board,
         symbol |-> [c \in Refs |->
                        IF \E p \in Pos : new_board.cells[p] = c
                        THEN sym[b.cells[<<cell_row(c), cell_col(c)>>]]
                        ELSE sym[c]],
         candidates |-> [c \in Refs |->
                        IF \E p \in Pos : new_board.cells[p] = c THEN None ELSE cands[c]]]

\* Board.copy
copy(sym, cands, b) == copy_to(sym, cands, b, 1)

-----------------------------------------------------------------------------
(* engines/Solver.py *)

\* group_allows with `return True` inside the for loop: only the first cell of
\* the group is examined.
group_allows_first_only(sym, group, candidate, cell) ==
    \A i \in 1..Len(group) : i = 1 => ~(group[i] # cell /\ sym[group[i]] = candidate)

\* group_allows without the test `cell_to_check is not cell`: the cell's own
\* symbol counts as a conflict.
group_allows_counting_self(sym, group, candidate, cell) ==
    \A i \in 1..Len(group) : sym[group[i]] # candidate

\* One group scan of is_candidate_valid: no cell of the group other than
\* `cell` itself holds `candidate`.
group_allows(sym, group, candidate, cell) ==
    \A i \in 1..Len(group) : ~(group[i] # cell /\ sym[group[i]] = candidate)

\* is_candidate_valid without the scan of the cell's row.
is_candidate_valid_no_row(sym, b, candidate, cell) ==
    /\ group_allows(sym, b.cols[cell_col(cell)], candidate, cell)
    /\ group_allows(sym, b.boxes[cell_box(cell)], candidate, cell)

\* Solver.is_candidate_valid
is_candidate_valid(sym, b, candidate, cell) ==
    /\ group_allows(sym, b.rows[cell_row(cell)], candidate, cell)
    /\ group_allows(sym, b.cols[cell_col(cell)], candidate, cell)
    /\ group_allows(sym, b.boxes[cell_box(cell)], candidate, cell)

\* solve_backtrack, lines 68-70: the empty cells in row-major order, each
\* paired with candidate index 0.
collect_empty_cells(sym, b) ==
    LET empties == SelectSeq(board_cells(b), LAMBDA c : sym[c] = None)
    IN  [i \in 1..Len(empties) |-> <<empties[i], 0>>]

\* resume_index without `candidate_index += 1`: a backtrack step starts again
\* from the candidate the cell held.
resume_index_same_candidate(sym, entry) == entry[2]

\* solve_backtrack, lines 96-98: the candidate index the scan starts from. A
\* cell that is already filled is a backtrack step and resumes after the
\* candidate it held.
resume_index(sym, entry) ==
    IF sym[entry[1]] # None THEN entry[2] + 1 ELSE entry[2]

\* scan_candidates with `break` in place of `candidate_index += 1`: the scan
\* gives up at the first candidate that is not valid.
scan_candidates_break(sym, cands, b, cell, candidate_index) ==
    IF candidate_index >= Len(cands[cell]) THEN candidate_index
    ELSE IF is_candidate_valid(sym, b, cands[cell][candidate_index + 1], cell)
         THEN candidate_index
         ELSE Len(cands[cell])

RECURSIVE scan_candidates(_, _, _, _, _)
\* solve_backtrack, lines 104-134: the inner while loop. The index of the first
\* valid candidate at or after candidate_index, or num_candidates when none is.
scan_candidates(sym, cands, b, cell, candidate_index) ==
    IF candidate_index >= Len(cands[cell]) THEN candidate_index
    ELSE IF is_candidate_valid(sym, b, cands[cell][candidate_index + 1], cell)
         THEN candidate_index
         ELSE scan_candidates(sym, cands, b, cell, candidate_index + 1)

\* solve_backtrack_step without `cell.symbol = None` on a backtrack step.
solve_backtrack_step_no_clear(fr, cands, b) ==
    LET entry == fr.empty_cells[fr.cell_index + 1]
        cell == entry[1]
        num_candidates == Len(cands[cell])
        candidate_index ==
            scan_candidates(fr.symbol, cands, b, cell, resume_index(fr.symbol, entry))
    IN  IF candidate_index < num_candidates
        THEN [symbol |-> [fr.symbol EXCEPT ![cell] = cands[cell][candidate_index + 1]],
              empty_cells |-> [fr.empty_cells EXCEPT
                                  ![fr.cell_index + 1] = <<cell, candidate_index>>],
              cell_index |-> fr.cell_index + 1]
        ELSE [symbol |-> fr.symbol,
              empty_cells |-> [fr.empty_cells EXCEPT ![fr.cell_index + 1] = <<cell, 0>>],
              cell_index |-> fr.cell_index - 1]

\* solve_backtrack_step without `empty_cells[cell_index][1] = 0` at a dead end.
solve_backtrack_step_no_reset(fr, cands, b) ==
    LET entry == fr.empty_cells[fr.cell_index + 1]
        cell == entry[1]
        num_candidates == Len(cands[cell])
        cleared == IF fr.symbol[cell] # None
                   THEN [fr.symbol EXCEPT ![cell] = None]
                   ELSE fr.symbol
        candidate_index ==
            scan_candidates(cleared, cands, b, cell, resume_index(fr.symbol, entry))
    IN  IF candidate_index < num_candidates
        THEN [symbol |-> [cleared EXCEPT ![cell] = cands[cell][candidate_index + 1]],
              empty_cells |-> [fr.empty_cells EXCEPT
                                  ![fr.cell_index + 1] = <<cell, candidate_index>>],
              cell_index |-> fr.cell_index + 1]
        ELSE [symbol |-> cleared,
              empty_cells |-> fr.empty_cells,
              cell_index |-> fr.cell_index - 1]

\* solve_backtrack_step clearing, at a dead end, every cell of the cell's row.
solve_backtrack_step_clears_row(fr, cands, b) ==
    LET entry == fr.empty_cells[fr.cell_index + 1]
        cell == entry[1]
        num_candidates == Len(cands[cell])
        cleared == IF fr.symbol[cell] # None
                   THEN [fr.symbol EXCEPT ![cell] = None]
                   ELSE fr.symbol
        candidate_index ==
            scan_candidates(cleared, cands, b, cell, resume_index(fr.symbol, entry))
    IN  IF candidate_index < num_candidates
        THEN [symbol |-> [cleared EXCEPT ![cell] = cands[cell][candidate_index + 1]],
              empty_cells |-> [fr.empty_cells EXCEPT
                                  ![fr.cell_index + 1] = <<cell, candidate_index>>],
              cell_index |-> fr.cell_index + 1]
        ELSE [symbol |-> [c \in Refs |->
                            IF c \in Range(b.rows[cell_row(cell)]) THEN None
                            ELSE cleared[c]],
              empty_cells |-> [fr.empty_cells EXCEPT ![fr.cell_index + 1] = <<cell, 0>>],
              cell_index |-> fr.cell_index - 1]

\* solve_backtrack, lines 90-139: one iteration of the outer while loop on the
\* frame fr = [symbol, empty_cells, cell_index] (DEBUG is False).
solve_backtrack_step(fr, cands, b) ==
    LET entry == fr.empty_cells[fr.cell_index + 1]
        cell == entry[1]
        num_candidates == Len(cands[cell])
        cleared == IF fr.symbol[cell] # None
                   THEN [fr.symbol EXCEPT ![cell] = None]
                   ELSE fr.symbol
        candidate_index ==
            scan_candidates(cleared, cands, b, cell, resume_index(fr.symbol, entry))
    IN  IF candidate_index < num_candidates
        THEN [symbol |-> [cleared EXCEPT ![cell] = cands[cell][candidate_index + 1]],
              empty_cells |-> [fr.empty_cells EXCEPT
                                  ![fr.cell_index + 1] = <<cell, candidate_index>>],
              cell_index |-> fr.cell_index + 1]
        ELSE [symbol |-> cleared,
              empty_cells |-> [fr.empty_cells EXCEPT ![fr.cell_index + 1] = <<cell, 0>>],
              cell_index |-> fr.cell_index - 1]

\* solve_backtrack, line 87: the loop's exit test.
loop_exits(fr) ==
    fr.cell_index >= Len(fr.empty_cells) \/ fr.cell_index < 0

\* solve_backtrack, line 142: the value returned after the loop.
solve_backtrack_return(fr) ==
    fr.symbol[fr.empty_cells[Len(fr.empty_cells)][1]] # None

\* solve_backtrack without its early return: the verdict for an empty list.
no_empty_cells_return_false == FALSE

\* solve_backtrack, lines 75-76: the value returned when there is no empty cell.
no_empty_cells_return == TRUE

RECURSIVE solve_backtrack_loop(_, _, _)
\* solve_backtrack, lines 85-139: the outer while loop run to its exit.
solve_backtrack_loop(fr, cands, b) ==
    IF loop_exits(fr) THEN fr
    ELSE solve_backtrack_loop(solve_backtrack_step(fr, cands, b), cands, b)

\* Solver.solve: populate the candidate list of every empty cell, then run
\* solve_backtrack. The frames solve_backtrack can enter its loop with: one for
\* each candidate-list order and each shuffle of the empty cells.
solve_entries(sym, cands, b) ==
    {[symbol |-> sym, candidates |-> cl, empty_cells |-> ec, cell_index |-> 0] :
        cl \in calculate_all_empty_cell_candidates(sym, cands, b),
        ec \in shuffle(collect_empty_cells(sym, b))}

\* Solver.solve run to completion: every [ret, symbol, candidates] it can end with.
solve(sym, cands, b) ==
    {IF Len(e.empty_cells) = 0
     THEN [ret |-> no_empty_cells_return, symbol |-> e.symbol, candidates |-> e.candidates]
     ELSE LET fr == solve_backtrack_loop(
                        [symbol |-> e.symbol, empty_cells |-> e.empty_cells,
                         cell_index |-> e.cell_index], e.candidates, b)
          IN  [ret |-> solve_backtrack_return(fr), symbol |-> fr.symbol,
               candidates |-> e.candidates] :
        e \in solve_entries(sym, cands, b)}

-----------------------------------------------------------------------------
(* sudoku/engines/reducer.py *)

\* The end of a trial: new_board goes out of scope, and the Cell objects only it
\* reaches are gone from the heap.
discard(heap, new_board, b) ==
    [c \in Refs |->
        IF (\E p \in Pos : new_board.cells[p] = c) /\ ~(\E p \in Pos : b.cells[p] = c)
        THEN None
        ELSE heap[c]]

\* force_candidate writing through self.board instead of new_board.
force_candidate_into_original(sym, new_board, b, cell, possible_candidate) ==
    [sym EXCEPT ![b.cells[<<cell_row(cell), cell_col(cell)>>]] = possible_candidate]

\* reduce_cell, line 83:
\* new_board.cells[cell.row][cell.col].symbol = possible_candidate
force_candidate(sym, new_board, b, cell, possible_candidate) ==
    [sym EXCEPT ![new_board.cells[<<cell_row(cell), cell_col(cell)>>]] = possible_candidate]

\* trial_solved without the test of `solved`: the trial's verdict is dropped.
trial_solved_ignored(ret) == FALSE

\* reduce_cell, lines 87-92: whether the trial's solve makes reduce_cell abort.
trial_solved(ret) == ret

\* reduce_cell, lines 79-92: one iteration of the loop over possible_candidates.
\* Every [solved, symbol, candidates] the trial can end with.
reduce_cell_trial(sym, cands, b, cell, possible_candidate) ==
    LET cp == copy(sym, cands, b)
        forced == force_candidate(cp.symbol, cp.board, b, cell, possible_candidate)
    IN  {[solved |-> trial_solved(o.ret),
          symbol |-> discard(o.symbol, cp.board, b),
          candidates |-> discard(o.candidates, cp.board, b)] :
            o \in solve(forced, cp.candidates, cp.board)}

RECURSIVE reduce_cell_loop(_, _, _, _, _)
\* reduce_cell, lines 78-97: the loop over the candidates not tried yet (a set is
\* iterated in an arbitrary order), the return inside it and the removal after it.
reduce_cell_loop(sym, cands, b, cell, remaining) ==
    IF remaining = {}
    THEN {[ret |-> TRUE, symbol |-> [sym EXCEPT ![cell] = None], candidates |-> cands]}
    ELSE UNION {
            UNION {
                IF t.solved
                THEN {[ret |-> FALSE, symbol |-> t.symbol, candidates |-> t.candidates]}
                ELSE reduce_cell_loop(t.symbol, t.candidates, b, cell, remaining \ {v}) :
                    t \in reduce_cell_trial(sym, cands, b, cell, v)} :
            v \in remaining}

\* reduce_cell without the test for an empty cell.
reduce_cell_no_empty_test(sym, cands, b, cell) ==
    reduce_cell_loop(sym, cands, b, cell, calculate_cell_candidates(sym, b, cell))

\* Reducer.reduce_cell: every [ret, symbol, candidates] the call can end with.
reduce_cell(sym, cands, b, cell) ==
    IF sym[cell] = None
    THEN {[ret |-> FALSE, symbol |-> sym, candidates |-> cands]}
    ELSE reduce_cell_loop(sym, cands, b, cell, calculate_cell_candidates(sym, b, cell))

\* reduce_n_cells, lines 26-28: the filled cells of the board.
collect_filled_cells(sym, b) == {c \in Range(board_cells(b)) : sym[c] # None}

\* reduced_enough comparing with > : one reduction too many before the break.
reduced_enough_off_by_one(reduced, num_to_reduce) == reduced > num_to_reduce

\* reduce_n_cells, lines 48-49: the test that breaks out of the for loop.
reduced_enough(reduced, num_to_reduce) == reduced >= num_to_reduce

-----------------------------------------------------------------------------
(* The boards the operations are called on *)

\* A complete valid 4x4 grid (tests/engines/reducer/test_reducer_reduce_cell.py).
SolvedState ==
    <<"1", "2", "3", "4",
      "3", "4", "1", "2",
      "2", "1", "4", "3",
      "4", "3", "2", "1">>

\* At most this many cells of an initial state are empty.
MaxEmpty == 3

\* The indices of an initial state that may be blanked (all but the last row and
\* the last column), and those that may carry a symbol other than the solved
\* grid's (the two ends of the first row).
BlankIdx == {i \in 1..size * size : RowMajor[i][1] < size - 1 /\ RowMajor[i][2] < size - 1}
CorruptIdx == {1, size}

\* Initial states: the solved grid, possibly with one cell of the first row
\* overwritten by another symbol, with up to MaxEmpty cells blanked.
InitialStates ==
    LET written == {SolvedState} \cup
                       {[SolvedState EXCEPT ![i] = w] : i \in CorruptIdx, w \in Range(symbols)}
        blanks == {E \in SUBSET BlankIdx : Cardinality(E) <= MaxEmpty}
    IN  {[i \in 1..size * size |-> IF i \in E THEN empty_symbol ELSE s[i]] :
            s \in written, E \in blanks}

\* Board(symbols, initial_state): the board under test after construction.
InitBoard(initial_state) ==
    /\ board = initialize_cells(0)
    /\ symbol = set_initial_state(FreshHeap, initialize_cells(0), initial_state)
    /\ candidates = FreshHeap
    /\ pc = "idle"
    /\ op = [name |-> "none", cell |-> 0, count |-> 0]
    /\ result = FALSE
    /\ empty_cells = <<>>
    /\ cell_index = 0
    /\ filled_cells = {}
    /\ num_cells_reduced = 0
    /\ symbol0 = symbol
    /\ touched = {}
    /\ copied_board = NoBoard
    /\ config = [slot \in Slots |-> IF slot = 0 THEN DefaultConfig ELSE NoConfig]
    /\ attempts = [c \in Refs |-> 0]

-----------------------------------------------------------------------------
(* Specification Spec: Solver(board).solve(), one step per loop iteration *)

Init == \E s \in InitialStates : InitBoard(s)

\* The call of solve up to the first loop test of solve_backtrack.
SolveCall ==
    /\ pc = "idle"
    /\ \E e \in solve_entries(symbol, candidates, board) :
        /\ candidates' = e.candidates
        /\ empty_cells' = e.empty_cells
        /\ cell_index' = e.cell_index
        /\ IF Len(e.empty_cells) = 0
           THEN pc' = "done" /\ result' = no_empty_cells_return
           ELSE pc' = "loop" /\ result' = result
    /\ op' = [name |-> "solve", cell |-> 0, count |-> 0]
    /\ symbol0' = symbol
    /\ touched' = {}
    /\ UNCHANGED <<board, symbol, filled_cells, num_cells_reduced, copied_board, config,
                   attempts>>

\* One iteration of the while loop of solve_backtrack.
SolveStep ==
    /\ pc = "loop"
    /\ LET fr == [symbol |-> symbol, empty_cells |-> empty_cells, cell_index |-> cell_index]
       IN  /\ ~loop_exits(fr)
           /\ LET nxt == solve_backtrack_step(fr, candidates, board)
              IN  /\ symbol' = nxt.symbol
                  /\ empty_cells' = nxt.empty_cells
                  /\ cell_index' = nxt.cell_index
                  /\ touched' = touched \cup {c \in Refs : nxt.symbol[c] # symbol[c]}
    /\ UNCHANGED <<board, candidates, pc, op, result, filled_cells,
                   num_cells_reduced, symbol0, copied_board, config, attempts>>

\* The loop exit and the return statement of solve_backtrack.
SolveReturn ==
    /\ pc = "loop"
    /\ LET fr == [symbol |-> symbol, empty_cells |-> empty_cells, cell_index |-> cell_index]
       IN  /\ loop_exits(fr)
           /\ result' = solve_backtrack_return(fr)
    /\ pc' = "done"
    /\ UNCHANGED <<board, symbol, candidates, op, empty_cells, cell_index,
                   filled_cells, num_cells_reduced, symbol0, touched, copied_board,
                   config, attempts>>

Next == SolveCall \/ SolveStep \/ SolveReturn

Spec == Init /\ [][Next]_vars

-----------------------------------------------------------------------------
(* What the claims speak of *)

\* The cells of the board under test.
BoardCells == Range(board_cells(board))

\* The row, column and box groups of a board.
Groups(b) ==
    {b.rows[r] : r \in DOMAIN b.rows} \cup {b.cols[k] : k \in DOMAIN b.cols}
        \cup {b.boxes[x] : x \in DOMAIN b.boxes}

\* No group of the board holds the same symbol in two of its cells.
NoDuplicate(sym, b) ==
    \A g \in Groups(b) : \A i, j \in 1..Len(g) :
        (i # j /\ sym[g[i]] # None) => sym[g[i]] # sym[g[j]]

\* Every cell of the board is assigned.
Complete(sym, b) == \A c \in Range(board_cells(b)) : sym[c] # None

\* The valid completions of a board: every assignment of alphabet symbols to
\* its empty cells that leaves no duplicate in any group.
Completions(sym, b) ==
    LET empties == {c \in Range(board_cells(b)) : sym[c] = None}
        filled(f) == [c \in Refs |-> IF c \in empties THEN f[c] ELSE sym[c]]
    IN  {filled(f) : f \in {f \in [empties -> Range(symbols)] : NoDuplicate(filled(f), b)}}

\* cell.candidates is a list (not None), and two values of cell.candidates are
\* the same (both None, or equal lists).
IsList(value) == value \in Seq(Range(symbols))
SameCandidates(a, b) ==
    IF IsList(a) /\ IsList(b) THEN a = b ELSE IsList(a) = IsList(b)

\* The candidate list of every cell that has one.
CandidateLists == [c \in Refs |-> IF IsList(candidates[c]) THEN <<candidates[c]>> ELSE <<>>]

\* What a write to a cell or a call changes: the record of the call, the
\* assignments and the candidate lists.
Written == <<op, symbol, CandidateLists>>

\* The assignment of the cells of a board.
Assignment(sym, b) == [p \in Pos |-> sym[b.cells[p]]]

SolveDone == pc = "done" /\ op.name = "solve"

-----------------------------------------------------------------------------
(* Claims about solve, checked under Spec *)

\* C1: whenever solve returns failure, every cell of the grid holds exactly the
\* assignment it held when solve was called.
C1_FailureRestoresGrid ==
    (SolveDone /\ result = FALSE) => \A c \in BoardCells : symbol[c] = symbol0[c]

\* C1 witness: solve has failed after the search wrote to cells of the grid.
C1_Witness ==
    /\ SolveDone /\ result = FALSE
    /\ Cardinality(touched) >= 2
    /\ \A c \in BoardCells : symbol[c] = symbol0[c]

\* C2: whenever solve returns success on a grid whose pre-assigned cells hold no
\* duplicate in any row, column or box, every cell is assigned an alphabet symbol
\* and every row, column and box holds each alphabet symbol exactly once.
C2_SuccessIsValidSolution ==
    (SolveDone /\ result = TRUE /\ NoDuplicate(symbol0, board)) =>
        /\ \A c \in BoardCells : symbol[c] \in Range(symbols)
        /\ \A g \in Groups(board) : \A s \in Range(symbols) :
              Cardinality({i \in 1..Len(g) : symbol[g[i]] = s}) = 1

\* C2 witness: solve has succeeded on a duplicate-free grid after backtracking
\* filled several cells.
C2_Witness ==
    /\ SolveDone /\ result = TRUE /\ NoDuplicate(symbol0, board)
    /\ Cardinality(touched) >= 3
    /\ Complete(symbol, board)

\* C3: on a grid whose pre-assigned cells are conflict-free, solve returns
\* success exactly when the grid has a valid completion, whatever the shuffle of
\* the empty cells and the order of each candidate list.
C3_SuccessIffCompletionExists ==
    (SolveDone /\ NoDuplicate(symbol0, board)) =>
        (result = TRUE <=> Completions(symbol0, board) # {})

\* C3 witness: solve has failed on a conflict-free grid with empty cells and no
\* valid completion, after trying assignments.
C3_Witness ==
    /\ SolveDone /\ result = FALSE /\ NoDuplicate(symbol0, board)
    /\ touched # {}
    /\ Completions(symbol0, board) = {}

\* C4: solve on a grid in which every cell is assigned and no group holds a
\* duplicate returns success and changes no cell's assignment.
C4_CompleteGridUntouched ==
    (SolveDone /\ Complete(symbol0, board) /\ NoDuplicate(symbol0, board)) =>
        (result = TRUE /\ \A c \in BoardCells : symbol[c] = symbol0[c])

\* C4 witness: solve has returned on a complete valid grid.
C4_Witness ==
    /\ SolveDone /\ Complete(symbol0, board) /\ NoDuplicate(symbol0, board)
    /\ result = TRUE /\ touched = {}

\* C5: solve returns failure for every grid whose pre-assigned cells already hold
\* the same symbol twice in one row, column or box.
C5_InvalidPuzzleFails ==
    (SolveDone /\ ~NoDuplicate(symbol0, board)) => result = FALSE

-----------------------------------------------------------------------------
(* Specification SpecReduceCell: Reducer(board).reduce_cell(cell) *)

\* reduce_cell called on a cell of the board, run to its return.
ReduceCellCall ==
    /\ pc = "idle"
    /\ \E cell \in BoardCells :
        /\ op' = [name |-> "reduce_cell", cell |-> cell, count |-> 0]
        /\ attempts' = [[c \in Refs |-> 0] EXCEPT ![cell] = 1]
        /\ \E o \in reduce_cell(symbol, candidates, board, cell) :
            /\ symbol' = o.symbol
            /\ candidates' = o.candidates
            /\ result' = o.ret
            /\ touched' = {c \in Refs : o.symbol[c] # symbol[c]}
    /\ pc' = "done"
    /\ symbol0' = symbol
    /\ UNCHANGED <<board, empty_cells, cell_index, filled_cells, num_cells_reduced,
                   copied_board, config>>

NextReduceCell == ReduceCellCall

SpecReduceCell == Init /\ [][NextReduceCell]_vars

-----------------------------------------------------------------------------
(* Specification SpecReduceN: Reducer(board).reduce_n_cells(num_to_reduce) on a
   complete valid grid, one step per iteration of its for loop *)

\* The largest num_to_reduce passed to reduce_n_cells.
MaxReduce == 4

\* The initial state of a board on which no cell is assigned.
EmptyState == [i \in 1..size * size |-> empty_symbol]

\* reduce_n_cells is called on the solved grid or on a grid without filled cells.
InitReduceN == \E s \in {SolvedState, EmptyState} : InitBoard(s)

\* reduce_n_cells up to the start of its for loop. random.shuffle fixes an order
\* of the filled cells; the loop reveals it one cell at a time, so the state
\* keeps the cells not reached yet and each iteration takes any of them.
ReduceNCallOn(b, num_to_reduce, call) ==
    /\ op' = [call EXCEPT !.name = "reduce_n_cells", !.count = num_to_reduce]
    /\ IF num_to_reduce = 0 \/ collect_filled_cells(symbol, b) = {}
       THEN pc' = "done" /\ filled_cells' = {}
       ELSE pc' = "rn_loop" /\ filled_cells' = collect_filled_cells(symbol, b)
    /\ num_cells_reduced' = 0
    /\ symbol0' = symbol
    /\ touched' = {}
    /\ attempts' = [c \in Refs |-> 0]
    /\ UNCHANGED <<board, symbol, candidates, result, empty_cells, cell_index,
                   copied_board, config>>

\* Reducer(board).reduce_n_cells(num_to_reduce)
ReduceNCall ==
    /\ pc = "idle"
    /\ \E num_to_reduce \in 0..MaxReduce :
        ReduceNCallOn(board, num_to_reduce, [name |-> "none", cell |-> 0, count |-> 0])

\* One iteration of the for loop of reduce_n_cells, with its call of reduce_cell;
\* the loop ends by `break` or when no cell is left.
ReduceNIterOn(b) ==
    /\ pc = "rn_loop"
    /\ \E cell \in filled_cells :
        \E o \in reduce_cell(symbol, candidates, b, cell) :
            LET reduced == num_cells_reduced + (IF o.ret = TRUE THEN 1 ELSE 0)
            IN  /\ symbol' = o.symbol
                /\ candidates' = o.candidates
                /\ num_cells_reduced' = reduced
                /\ filled_cells' = filled_cells \ {cell}
                /\ attempts' = [attempts EXCEPT ![cell] = @ + 1]
                /\ touched' = touched \cup {c \in Refs : o.symbol[c] # symbol[c]}
                /\ pc' = IF reduced_enough(reduced, op.count) \/ filled_cells \ {cell} = {}
                         THEN "done" ELSE "rn_loop"
    /\ UNCHANGED <<board, op, result, empty_cells, cell_index, symbol0, copied_board,
                   config>>

\* An iteration of reduce_n_cells of Reducer(board).
ReduceNIter == ReduceNIterOn(board)

NextReduceN == ReduceNCall \/ ReduceNIter

SpecReduceN == InitReduceN /\ [][NextReduceN]_vars

-----------------------------------------------------------------------------
(* Claims about the Reducer *)

ReduceCellDone == pc = "done" /\ op.name = "reduce_cell"
ReduceNDone == pc = "done" /\ op.name = "reduce_n_cells"

\* The alternatives reduce_cell tries for the cell it was called on.
Alternatives == calculate_cell_candidates(symbol0, board, op.cell)

\* C6: after reduce_n_cells(k) on a complete valid grid, the resulting grid has
\* exactly one valid completion, and it is the grid as it was before the call.
C6_ReducedGridHasUniqueCompletion ==
    (ReduceNDone /\ Complete(symbol0, board) /\ NoDuplicate(symbol0, board)) =>
        {Assignment(h, board) : h \in Completions(symbol, board)}
            = {Assignment(symbol0, board)}

\* C6 witness: reduce_n_cells has returned after unassigning MaxReduce cells,
\* having refused at least one cell.
C6_Witness ==
    /\ ReduceNDone /\ Complete(symbol0, board) /\ NoDuplicate(symbol0, board)
    /\ num_cells_reduced = MaxReduce
    /\ Cardinality(collect_filled_cells(symbol0, board) \ filled_cells)
           > num_cells_reduced

ReduceNRunning == pc \in {"rn_loop", "done"} /\ op.name = "reduce_n_cells"

\* The cells reduce_n_cells has unassigned so far.
Unassigned == {c \in BoardCells : symbol0[c] # None /\ symbol[c] = None}

\* C11: for every target k >= 0, reduce_n_cells(k) unassigns at most k cells (and
\* changes no cell otherwise), attempts each initially-assigned cell at most once
\* and no other cell, and makes no reduce_cell attempt once k reductions have
\* succeeded, so that k = 0 changes nothing; it returns normally with fewer than
\* k reductions when the list of cells is exhausted.
C11_AtMostKReductions ==
    /\ [](ReduceNRunning =>
            /\ Cardinality(Unassigned) = num_cells_reduced
            /\ num_cells_reduced <= op.count
            /\ \A c \in BoardCells \ Unassigned : symbol[c] = symbol0[c]
            /\ \A c \in Refs :
                  /\ attempts[c] <= 1
                  /\ attempts[c] = 1 => (c \in BoardCells /\ symbol0[c] # None)
            /\ op.count = 0 => (pc = "done" /\ \A c \in Refs : attempts[c] = 0)
            /\ (pc = "rn_loop") => filled_cells # {})
    /\ [][(\E c \in Refs : attempts'[c] > attempts[c]) => num_cells_reduced < op.count]_vars

\* C11 witness: reduce_n_cells(k) with k >= 2 has returned after exactly k
\* reductions, having refused a cell on the way and leaving cells unattempted.
C11_Witness ==
    /\ ReduceNDone /\ op.count >= 2
    /\ Cardinality(Unassigned) = op.count
    /\ \E c \in BoardCells : attempts[c] = 1 /\ symbol[c] # None
    /\ \E c \in BoardCells : attempts[c] = 0 /\ symbol[c] # None

\* reduce_n_cells(k) with k > 0 has returned with fewer than k reductions: the
\* list of filled cells was exhausted.
C11_ExhaustedReturn ==
    ReduceNDone /\ op.count > 0 /\ num_cells_reduced < op.count

\* C7: reduce_cell on an assigned cell returns "reduced" and unassigns the cell
\* exactly when, for every alternative value v of the cell's legal-candidate set,
\* the grid with v forced into the cell has no valid completion.
C7_ReducedIffNoAlternativeCompletes ==
    (ReduceCellDone /\ symbol0[op.cell] # None) =>
        /\ result = TRUE <=>
              \A v \in Alternatives :
                  Completions([symbol0 EXCEPT ![op.cell] = v], board) = {}
        /\ result = TRUE => symbol[op.cell] = None

\* C7 on the grids whose assigned cells hold no duplicate in any group, the
\* grids on which a trial solve reports success only for a valid completion.
C7_OnDuplicateFreeGrids ==
    (ReduceCellDone /\ symbol0[op.cell] # None /\ NoDuplicate(symbol0, board)) =>
        /\ result = TRUE <=>
              \A v \in Alternatives :
                  Completions([symbol0 EXCEPT ![op.cell] = v], board) = {}
        /\ result = TRUE => symbol[op.cell] = None

\* C8: whenever reduce_cell returns "not reduced", the target cell holds the
\* symbol it held before the call and the whole grid is cell-for-cell unchanged.
C8_NotReducedLeavesGrid ==
    (ReduceCellDone /\ result = FALSE) => \A c \in BoardCells : symbol[c] = symbol0[c]

\* C8 witness: reduce_cell has returned "not reduced" for an assigned cell of a
\* duplicate-free grid, after a trial on a grid with empty cells found a solution.
C8_Witness ==
    /\ ReduceCellDone /\ result = FALSE /\ NoDuplicate(symbol0, board)
    /\ symbol0[op.cell] # None /\ symbol[op.cell] = symbol0[op.cell]
    /\ \E c \in BoardCells : symbol0[c] = None
    /\ Alternatives # {}

\* C9: reduce_cell never changes the assignment of any cell other than its
\* target cell, whether it returns "reduced" or "not reduced".
C9_OnlyTargetCellChanges ==
    ReduceCellDone => \A c \in BoardCells \ {op.cell} : symbol[c] = symbol0[c]

\* C9 witness: reduce_cell has returned "reduced" after running trials on a
\* duplicate-free grid that has other empty cells.
C9_Witness ==
    /\ ReduceCellDone /\ result = TRUE /\ NoDuplicate(symbol0, board)
    /\ symbol0[op.cell] # None /\ symbol[op.cell] = None
    /\ Alternatives # {}
    /\ \E c \in BoardCells \ {op.cell} : symbol0[c] = None

\* C10: reduce_cell called on an unassigned cell returns "not reduced" and
\* changes no cell of the grid.
C10_EmptyCellNotReduced ==
    (ReduceCellDone /\ symbol0[op.cell] = None) =>
        (result = FALSE /\ \A c \in BoardCells : symbol[c] = symbol0[c])

\* C10 witness: reduce_cell has returned for an unassigned cell that has legal
\* candidates.
C10_Witness ==
    /\ ReduceCellDone /\ symbol0[op.cell] = None
    /\ Alternatives # {}
    /\ result = FALSE

-----------------------------------------------------------------------------
(* Specification SpecCopy: board.copy(), then writes to Cell objects reached
   through the cells array or a lookup table of either board *)

\* The initial states of the boards that are copied: at most one empty cell.
CopyStates ==
    {s \in InitialStates : Cardinality({i \in 1..size * size : s[i] = empty_symbol}) <= 1}

InitCopy == \E s \in CopyStates : InitBoard(s)

\* The positions written to, and the values written.
MutPos == {<<0, 0>>}
MutSymbols == {"4"}
MutCandidates == {<<"1">>}

\* The ways to reach the Cell object at position p of board b:
\* b.cells[row][col], b.rows[row][i], b.cols[col][i], b.boxes[box][i].
cell_paths(b, p) ==
    {b.cells[p]}
        \cup {b.rows[p[1]][i] : i \in {i \in 1..Len(b.rows[p[1]]) :
                    cell_col(b.rows[p[1]][i]) = p[2]}}
        \cup {b.cols[p[2]][i] : i \in {i \in 1..Len(b.cols[p[2]]) :
                    cell_row(b.cols[p[2]][i]) = p[1]}}
        \cup UNION {{b.boxes[x][i] : i \in {i \in 1..Len(b.boxes[x]) :
                    cell_row(b.boxes[x][i]) = p[1] /\ cell_col(b.boxes[x][i]) = p[2]}} :
                        x \in DOMAIN b.boxes}

\* The board held in a slot of the test: 0 the source, 1 the clone.
board_of(slot) == IF slot = 0 THEN board ELSE copied_board

\* copied_board = board.copy()
CopyCall ==
    /\ pc = "idle"
    /\ LET cp == copy(symbol, candidates, board)
       IN  /\ copied_board' = cp.board
           /\ symbol' = cp.symbol
           /\ candidates' = cp.candidates
    /\ config' = [config EXCEPT ![1] = copy_config(config[0])]
    /\ op' = [name |-> "copy", cell |-> 0, count |-> 0]
    /\ symbol0' = symbol
    /\ touched' = {}
    /\ UNCHANGED <<board, pc, result, empty_cells, cell_index, filled_cells,
                   num_cells_reduced, attempts>>

\* cell.symbol = value, for a Cell reached through one of the two boards.
MutateSymbol ==
    /\ pc = "idle" /\ copied_board # NoBoard
    /\ \E slot \in {0, 1}, p \in MutPos, value \in MutSymbols :
        \E cell \in cell_paths(board_of(slot), p) :
            /\ symbol' = [symbol EXCEPT ![cell] = value]
            /\ op' = [name |-> "mutate", cell |-> cell, count |-> slot]
            /\ touched' = touched \cup {cell}
    /\ UNCHANGED <<board, candidates, pc, result, empty_cells, cell_index, filled_cells,
                   num_cells_reduced, symbol0, copied_board, config, attempts>>

\* cell.candidates = value, for a Cell reached through one of the two boards.
MutateCandidates ==
    /\ pc = "idle" /\ copied_board # NoBoard
    /\ \E slot \in {0, 1}, p \in MutPos, value \in MutCandidates :
        \E cell \in cell_paths(board_of(slot), p) :
            /\ candidates' = [candidates EXCEPT ![cell] = value]
            /\ op' = [name |-> "mutate", cell |-> cell, count |-> slot]
            /\ touched' = touched \cup {cell}
    /\ UNCHANGED <<board, symbol, pc, result, empty_cells, cell_index, filled_cells,
                   num_cells_reduced, symbol0, copied_board, config, attempts>>

NextCopy == CopyCall \/ MutateSymbol \/ MutateCandidates

SpecCopy == InitCopy /\ [][NextCopy]_vars

\* The positions of the cells of each group of a lookup table.
group_positions(table) ==
    [k \in DOMAIN table |->
        [i \in 1..Len(table[k]) |-> <<cell_row(table[k][i]), cell_col(table[k][i])>>]]

\* C12: a clone has the alphabet, empty marker, box structure and cell assignments
\* of its source, and every later write to a cell of either grid, reached through
\* its cells array or its row, column or box table, leaves every cell of the other
\* grid unchanged.
C12_CloneIsIndependent ==
    /\ [](copied_board # NoBoard =>
            /\ config[1] = config[0]
            /\ group_positions(copied_board.rows) = group_positions(board.rows)
            /\ group_positions(copied_board.cols) = group_positions(board.cols)
            /\ group_positions(copied_board.boxes) = group_positions(board.boxes)
            /\ op.name = "copy" =>
                  /\ Assignment(symbol, copied_board) = Assignment(symbol, board)
                  /\ Assignment(symbol, board) = Assignment(symbol0, board))
    /\ [][(op'.name = "mutate" /\ (symbol' # symbol \/ candidates' # candidates)) =>
            \A c \in Range(board_cells(board_of(1 - op'.count))) :
                symbol'[c] = symbol[c] /\ SameCandidates(candidates'[c], candidates[c])]_Written

\* C12 witness: after cloning, cells of both grids have been written to, and
\* the two grids differ at a position.
C12_Witness ==
    /\ copied_board # NoBoard /\ op.name = "mutate"
    /\ touched \cap Range(board_cells(board)) # {}
    /\ touched \cap Range(board_cells(copied_board)) # {}
    /\ \E p \in MutPos : symbol[board.cells[p]] # symbol[copied_board.cells[p]]

-----------------------------------------------------------------------------
(* Specification SpecConstruct: Board(symbols, initial_state, empty_symbol),
   then set_initial_state(initial_state) and str(board) on the board built *)

\* The symbols arguments: lists of str or of int, in any order, whose sorted
\* str forms are the alphabet of this model.
SymbolsArgs ==
    {[i \in 1..size |-> PyStr(symbols[i])],
     [i \in 1..size |-> PyInt(symbols[i])],
     [i \in 1..size |-> PyStr(symbols[size + 1 - i])],
     [i \in 1..size |-> IF i % 2 = 0 THEN PyInt(symbols[size + 1 - i])
                                    ELSE PyStr(symbols[size + 1 - i])]}

\* The empty_symbol arguments: the default, and each symbol of the alphabet.
EmptySymbolArgs == {PyStr(empty_symbol)} \cup {PyStr(symbols[i]) : i \in 1..size}

\* A sequence of str tokens (the characters of a str initial_state).
Chars(state) == [i \in 1..Len(state) |-> PyStr(state[i])]

\* The well-formed initial states: size * size tokens of the alphabet or the
\* empty symbol.
WellFormedStates == {Chars(s) : s \in CopyStates \cup {EmptyState}}

\* Tokens that are neither a symbol of the alphabet nor the empty symbol.
InvalidTokens == {PyStr("x"), PyStr("5"), PyInt("1")}

\* Initial states of the wrong length: one token short, one token long, no
\* token at all, and a short one that also holds an invalid token.
WrongLengthStates ==
    {SubSeq(Chars(SolvedState), 1, size * size - 1),
     Chars(SolvedState) \o <<PyStr("1")>>,
     <<>>,
     [SubSeq(Chars(SolvedState), 1, size * size - 1) EXCEPT ![2] = PyStr("x")]}

\* Initial states of the right length with one or two invalid tokens.
InvalidTokenStates ==
    {[Chars(SolvedState) EXCEPT ![i] = t] : i \in {1, 6, size * size}, t \in InvalidTokens}
        \cup {[Chars(EmptyState) EXCEPT ![3] = PyStr("x"), ![7] = PyStr("5")]}

InitialStateArgs ==
    {NoState} \cup
        {State(t) : t \in WellFormedStates \cup WrongLengthStates \cup InvalidTokenStates}

\* The initial states given to set_initial_state on a board that exists.
ReplaceStateArgs ==
    {State(Chars(s)) : s \in {SolvedState, EmptyState, [SolvedState EXCEPT ![6] = empty_symbol]}}
        \cup {State(t) : t \in WrongLengthStates \cup InvalidTokenStates}

\* The record of a call: the operation, its arguments, and the initial state the
\* grid was last successfully built from (<<>> when it was built from none).
Call(name, symbols_arg, empty_symbol_arg, initial_state_arg, built_from) ==
    [name |-> name, cell |-> 0, count |-> 0, symbols |-> symbols_arg,
     empty_symbol |-> empty_symbol_arg, initial_state |-> initial_state_arg,
     built_from |-> built_from]

\* Before the constructor is called there is no Board object.
InitConstruct ==
    /\ board = NoBoard
    /\ symbol = FreshHeap
    /\ candidates = FreshHeap
    /\ pc = "new"
    /\ op = Call("none", <<>>, PyStr(empty_symbol), NoState, <<>>)
    /\ result = Returned(None)
    /\ empty_cells = <<>>
    /\ cell_index = 0
    /\ filled_cells = {}
    /\ num_cells_reduced = 0
    /\ symbol0 = symbol
    /\ touched = {}
    /\ copied_board = NoBoard
    /\ config = [slot \in Slots |-> NoConfig]
    /\ attempts = [c \in Refs |-> 0]

\* Board.__init__: every way the constructor can end. When it raises, the
\* caller holds no Board object.
board_init(symbols_arg, initial_state_arg, empty_symbol_arg) ==
    LET cfg == board_config(symbols_arg, empty_symbol_arg)
        b == initialize_cells(0)
        set == set_initial_state_call(FreshHeap, b, cfg, initial_state_arg.tokens)
    IN  IF IsError(cfg)
        THEN [ret |-> cfg, board |-> NoBoard, symbol |-> FreshHeap, config |-> NoConfig]
        ELSE IF ~truthy(initial_state_arg)
        THEN [ret |-> Returned(None), board |-> b, symbol |-> FreshHeap, config |-> cfg]
        ELSE IF IsError(set.ret)
        THEN [ret |-> set.ret, board |-> NoBoard, symbol |-> FreshHeap, config |-> NoConfig]
        ELSE [ret |-> Returned(None), board |-> b, symbol |-> set.symbol, config |-> cfg]

\* board = Board(symbols=..., initial_state=..., empty_symbol=...)
Construct ==
    /\ pc = "new"
    /\ \E symbols_arg \in SymbolsArgs, initial_state_arg \in InitialStateArgs,
          empty_symbol_arg \in EmptySymbolArgs :
        LET o == board_init(symbols_arg, initial_state_arg, empty_symbol_arg)
        IN  /\ board' = o.board
            /\ symbol' = o.symbol
            /\ config' = [config EXCEPT ![0] = o.config]
            /\ result' = o.ret
            /\ pc' = IF IsError(o.ret) THEN "raised" ELSE "idle"
            /\ op' = Call("construct", symbols_arg, empty_symbol_arg, initial_state_arg,
                          IF ~IsError(o.ret) /\ truthy(initial_state_arg)
                          THEN initial_state_arg.tokens ELSE <<>>)
    /\ symbol0' = symbol
    /\ UNCHANGED <<candidates, empty_cells, cell_index, filled_cells, num_cells_reduced,
                   touched, copied_board, attempts>>

\* board.set_initial_state(initial_state) on the board built; a ValueError
\* leaves the caller with the board.
SetInitialState ==
    /\ pc = "idle" /\ board # NoBoard
    /\ \E initial_state_arg \in ReplaceStateArgs :
        LET o == set_initial_state_call(symbol, board, config[0], initial_state_arg.tokens)
        IN  /\ symbol' = o.symbol
            /\ result' = o.ret
            /\ op' = Call("set_initial_state", <<>>, PyStr(empty_symbol),
                          initial_state_arg,
                          IF IsError(o.ret) THEN op.built_from ELSE initial_state_arg.tokens)
    /\ symbol0' = symbol
    /\ UNCHANGED <<board, candidates, pc, empty_cells, cell_index, filled_cells,
                   num_cells_reduced, touched, copied_board, config, attempts>>

\* str(board)
Str ==
    /\ pc = "idle" /\ board # NoBoard
    /\ result' = Returned(board_str(symbol, board, config[0]))
    /\ op' = Call("__str__", <<>>, PyStr(empty_symbol), NoState, op.built_from)
    /\ symbol0' = symbol
    /\ UNCHANGED <<board, symbol, candidates, pc, empty_cells, cell_index, filled_cells,
                   num_cells_reduced, touched, copied_board, config, attempts>>

NextConstruct == Construct \/ SetInitialState \/ Str

SpecConstruct == InitConstruct /\ [][NextConstruct]_vars

-----------------------------------------------------------------------------
(* Claims about construction, set_initial_state and serialization *)

\* The call just made was the constructor or set_initial_state, with an
\* initial state supplied (not None).
StateSupplied ==
    op.name \in {"construct", "set_initial_state"} /\ ~op.initial_state.none

\* The tokens of the initial state supplied to the call.
Tokens == op.initial_state.tokens

\* The constructor was given an empty symbol that is one of the str forms of
\* its symbols.
MarkerConflict ==
    op.name = "construct" /\
        py_in(op.empty_symbol, {str(op.symbols[i]) : i \in 1..Len(op.symbols)})

\* The 0-based indices of the tokens that are neither an alphabet symbol nor the
\* empty symbol of the call.
InvalidAt ==
    {i \in 0..Len(Tokens) - 1 :
        ~py_in(Tokens[i + 1], Range(symbols) \cup {str(op.empty_symbol)})}

\* A well-formed initial state: size * size tokens, each an alphabet symbol or
\* the empty symbol.
WellFormed(tokens) ==
    /\ Len(tokens) = size * size
    /\ \A i \in 1..Len(tokens) : py_in(tokens[i], Range(symbols) \cup {empty_symbol})

\* The str whose characters are the tokens.
as_text(tokens) ==
    LET join[i \in 0..Len(tokens)] == IF i = 0 THEN "" ELSE join[i - 1] \o str(tokens[i])
    IN  join[Len(tokens)]

C14_EmptyMarkerConflictFails ==
    MarkerConflict =>
        /\ pc = "raised" /\ IsError(result) /\ result.what = "empty_symbol"
        /\ board = NoBoard
        /\ \A c \in Refs : symbol[c] = None

\* C14 witness: the constructor, given numeric symbols, a well-formed initial
\* state and an empty marker equal to the str form of a symbol, has raised.
C14_Witness ==
    /\ MarkerConflict /\ pc = "raised" /\ board = NoBoard
    /\ \E i \in 1..Len(op.symbols) : op.symbols[i].type = "int"
    /\ StateSupplied /\ Len(Tokens) = size * size /\ InvalidAt = {}

\* C15: the constructor fails with a configuration error for every supplied
\* initial state whose length is not size * size (shorter, longer or empty), and
\* set_initial_state does the same on an existing grid.
C15_WrongLengthFails ==
    (StateSupplied /\ Len(Tokens) # size * size) =>
        (IsError(result) /\ (op.name = "construct" => board = NoBoard))

\* C15 for every call but the constructor given an initial state without
\* tokens: a wrong length is a configuration error.
C15_ExceptEmptyAtConstruction ==
    (StateSupplied /\ Len(Tokens) # size * size
        /\ ~(op.name = "construct" /\ Len(Tokens) = 0)) =>
        (IsError(result) /\ (op.name = "construct" => board = NoBoard))

\* C16: the constructor and set_initial_state fail with a configuration error
\* whenever a token of the initial state is neither an alphabet symbol nor the
\* empty marker, and the error identifies the first offending index and token.
C16_InvalidTokenIdentified ==
    (StateSupplied /\ InvalidAt # {}) =>
        /\ IsError(result) /\ result.what = "symbol"
        /\ \A j \in InvalidAt : result.index <= j
        /\ result.index \in InvalidAt
        /\ result.token = Tokens[result.index + 1]

\* C16 amended: the constructor and set_initial_state fail with a configuration
\* error whenever a token of the initial state is neither an alphabet symbol nor
\* the empty marker; when the state has size * size tokens and the empty marker is
\* accepted, the error identifies the first offending index and token.
C16_InvalidTokenIdentifiedWhenLengthRight ==
    (StateSupplied /\ InvalidAt # {}) =>
        /\ IsError(result)
        /\ (Len(Tokens) = size * size /\ ~MarkerConflict) =>
              /\ result.what = "symbol"
              /\ \A j \in InvalidAt : result.index <= j
              /\ result.index \in InvalidAt
              /\ result.token = Tokens[result.index + 1]

\* C16 witness: an initial state of the right length with two invalid tokens has
\* been refused, the error naming the first of them.
C16_Witness ==
    /\ StateSupplied /\ Len(Tokens) = size * size /\ ~MarkerConflict
    /\ Cardinality(InvalidAt) = 2
    /\ IsError(result) /\ result.what = "symbol"
    /\ \E j \in InvalidAt : result.index < j

\* C17: when set_initial_state fails on an existing grid (wrong length or invalid
\* token), no cell's assignment has changed.
C17_FailedSetLeavesGrid ==
    (op.name = "set_initial_state" /\ IsError(result)) =>
        \A c \in Refs : symbol[c] = symbol0[c]

\* C17 witness: set_initial_state has refused a state whose first invalid token
\* comes after tokens that differ from the grid's assignment.
C17_Witness ==
    /\ op.name = "set_initial_state" /\ IsError(result) /\ result.what = "symbol"
    /\ \E i \in 1..result.index :
          /\ str(Tokens[i]) # empty_symbol
          /\ symbol[board_cells(board)[i]] # str(Tokens[i])
    /\ \A c \in Refs : symbol[c] = symbol0[c]

-----------------------------------------------------------------------------
(* Specification SpecCandidates: board.calculate_cell_candidates(cell) *)

\* possible_candidates = board.calculate_cell_candidates(cell), for any cell of
\* the board, assigned or not.
CalculateCellCandidates ==
    /\ pc = "idle"
    /\ \E cell \in BoardCells :
        /\ result' = Returned(calculate_cell_candidates(symbol, board, cell))
        /\ op' = [name |-> "calculate_cell_candidates", cell |-> cell, count |-> 0]
    /\ pc' = "done"
    /\ symbol0' = symbol
    /\ UNCHANGED <<board, symbol, candidates, empty_cells, cell_index, filled_cells,
                   num_cells_reduced, touched, copied_board, config, attempts>>

NextCandidates == CalculateCellCandidates

SpecCandidates == Init /\ [][NextCandidates]_vars

-----------------------------------------------------------------------------
(* Specification SpecCalculateAll: board.calculate_all_empty_cell_candidates(),
   called again as the empty cells of the board are assigned *)

\* The indices of an initial state that may be blank on these boards: three
\* cells that share a row, a column or a box, and miss the same symbols.
CandIdx == {1, 2, 2 * size + 1}

CandidateStates ==
    {s \in InitialStates : \A i \in 1..size * size : s[i] = empty_symbol => i \in CandIdx}

InitCalculateAll == \E s \in CandidateStates : InitBoard(s)

\* board.calculate_all_empty_cell_candidates()
CalculateAll ==
    /\ pc = "idle"
    /\ candidates' \in calculate_all_empty_cell_candidates(symbol, candidates, board)
    /\ op' = [name |-> "calculate_all_empty_cell_candidates", cell |-> 0, count |-> 0]
    /\ symbol0' = symbol
    /\ UNCHANGED <<board, symbol, pc, result, empty_cells, cell_index, filled_cells,
                   num_cells_reduced, touched, copied_board, config, attempts>>

\* cell.symbol = value for an empty cell, as a search or a test does.
AssignCell ==
    /\ pc = "idle"
    /\ \E cell \in BoardCells, value \in Range(symbols) :
        /\ symbol[cell] = None
        /\ symbol' = [symbol EXCEPT ![cell] = value]
        /\ op' = [name |-> "assign", cell |-> cell, count |-> 0]
    /\ symbol0' = symbol
    /\ UNCHANGED <<board, candidates, pc, result, empty_cells, cell_index, filled_cells,
                   num_cells_reduced, touched, copied_board, config, attempts>>

NextCalculateAll == CalculateAll \/ AssignCell

SpecCalculateAll == InitCalculateAll /\ [][NextCalculateAll]_vars

-----------------------------------------------------------------------------
(* Claims about the legal candidates *)

\* The cells other than `cell` that share its row, its column or its box.
Peers(b, cell) ==
    {c \in Range(board_cells(b)) :
        /\ c # cell
        /\ \/ cell_row(c) = cell_row(cell)
           \/ cell_col(c) = cell_col(cell)
           \/ cell_box(c) = cell_box(cell)}

\* The alphabet minus every symbol assigned to a cell of `cells`.
AlphabetMinus(sym, cells) == Range(symbols) \ {sym[c] : c \in cells}

CandidatesDone == pc = "done" /\ op.name = "calculate_cell_candidates"

\* C18: for every cell of every grid state, the legal-candidates operation
\* returns exactly the alphabet minus every symbol currently assigned to any
\* other cell sharing that cell's row, column or box.
C18_CandidatesExcludePeers ==
    CandidatesDone =>
        result.value = AlphabetMinus(symbol, Peers(board, op.cell))

\* C18 amended: for every cell of every grid state, the legal-candidates
\* operation returns exactly the alphabet minus every symbol currently assigned
\* to any cell of that cell's row, column or box, the cell itself included; for
\* an unassigned cell this is the alphabet minus the symbols of its peers.
C18_CandidatesExcludeGroupSymbols ==
    CandidatesDone =>
        /\ result.value = AlphabetMinus(symbol, Peers(board, op.cell) \cup {op.cell})
        /\ symbol[op.cell] = None =>
              result.value = AlphabetMinus(symbol, Peers(board, op.cell))

\* C18 witness: the candidates of an assigned cell whose symbol no peer holds
\* have been computed; they are not empty and leave out the cell's own symbol.
C18_Witness ==
    /\ CandidatesDone /\ symbol[op.cell] # None
    /\ \A c \in Peers(board, op.cell) : symbol[c] # symbol[op.cell]
    /\ result.value # {}
    /\ symbol[op.cell] \notin result.value

\* C19: recomputing candidates overwrites the candidate list of every unassigned
\* cell with the members of that cell's legal-candidate set, each once, and
\* leaves the candidate list of every assigned cell and every cell's assignment
\* unchanged.
C19_RecomputeOverwritesEmptyCellsOnly ==
    [][op'.name = "calculate_all_empty_cell_candidates" =>
        /\ symbol' = symbol
        /\ \A c \in BoardCells :
              IF symbol[c] = None
              THEN /\ IsList(candidates'[c])
                   /\ Range(candidates'[c]) = AlphabetMinus(symbol, Peers(board, c))
                   /\ Len(candidates'[c]) = Cardinality(Range(candidates'[c]))
              ELSE SameCandidates(candidates'[c], candidates[c])
        /\ \A c \in Refs \ BoardCells : SameCandidates(candidates'[c], candidates[c])]_Written

\* C19 witness: candidates were recomputed on a grid with an unassigned cell that
\* has a candidate, while an assigned cell keeps an earlier list of several
\* candidates that is no longer what a recomputation would give.
C19_Witness ==
    /\ op.name = "calculate_all_empty_cell_candidates"
    /\ \E c \in BoardCells :
          symbol[c] = None /\ IsList(candidates[c]) /\ Len(candidates[c]) >= 1
    /\ \E c \in BoardCells :
          /\ symbol[c] # None /\ IsList(candidates[c]) /\ Len(candidates[c]) >= 2
          /\ Range(candidates[c]) # AlphabetMinus(symbol, Peers(board, c) \cup {c})

-----------------------------------------------------------------------------
(* Specification SpecFactors: closest_factors(n) *)

\* The largest n closest_factors is called with.
MaxN == 120

\* No Board object is involved.
InitFactors ==
    /\ board = NoBoard
    /\ symbol = FreshHeap
    /\ candidates = FreshHeap
    /\ pc = "idle"
    /\ op = [name |-> "none", cell |-> 0, count |-> 0]
    /\ result = Returned(<<0, 0>>)
    /\ empty_cells = <<>>
    /\ cell_index = 0
    /\ filled_cells = {}
    /\ num_cells_reduced = 0
    /\ symbol0 = symbol
    /\ touched = {}
    /\ copied_board = NoBoard
    /\ config = [slot \in Slots |-> NoConfig]
    /\ attempts = [c \in Refs |-> 0]

\* closest_factors(n)
ClosestFactors ==
    /\ pc = "idle"
    /\ \E n \in 1..MaxN :
        /\ result' = Returned(closest_factors(n))
        /\ op' = [name |-> "closest_factors", cell |-> 0, count |-> n]
    /\ pc' = "done"
    /\ UNCHANGED <<board, symbol, candidates, empty_cells, cell_index, filled_cells,
                   num_cells_reduced, symbol0, touched, copied_board, config, attempts>>

NextFactors == ClosestFactors

SpecFactors == InitFactors /\ [][NextFactors]_vars

\* C20: for every N >= 1 the box-factoring function returns (a, b) with
\* a * b = N and a <= b, and no pair of divisors of N with product N has a
\* smaller difference than b - a.
C20_ClosestFactors ==
    (pc = "done" /\ op.name = "closest_factors") =>
        LET n == op.count
            a == result.value[1]
            b == result.value[2]
        IN  /\ a * b = n
            /\ a <= b
            /\ \A d, e \in 1..n :
                  d * e = n => (IF d <= e THEN e - d ELSE d - e) >= b - a

\* C20 witness: the factors of a number that has several divisor pairs and is
\* not a square have been computed, and they are not (1, N).
C20_Witness ==
    /\ pc = "done" /\ op.name = "closest_factors"
    /\ Cardinality({d \in 1..op.count : op.count % d = 0}) >= 6
    /\ result.value[1] > 1
    /\ result.value[1] < result.value[2]

-----------------------------------------------------------------------------
(* Specification SpecNew: Board(symbols) for alphabets of every size, then a
   write to one cell of the board built *)

\* The largest number of symbols passed to the constructor.
MaxSize == 8

\* One-character symbols, in code point order.
SymbolPool == SubSeq(CodePoints, 3, Len(CodePoints) - 1)

\* The symbols arguments of n values: str in sorted order, int in sorted order
\* (range(1, n + 1)), str in reverse order, and a collection that lists its
\* first value twice, once as an int and once as a str.
SymbolsOfSize(n) ==
    {[i \in 1..n |-> PyStr(SymbolPool[i])],
     [i \in 1..n |-> PyInt(SymbolPool[i])],
     [i \in 1..n |-> PyStr(SymbolPool[n + 1 - i])],
     [i \in 1..n |-> IF i = n THEN PyStr(SymbolPool[1]) ELSE PyInt(SymbolPool[i])]}

InitNew ==
    /\ board = NoBoard
    /\ symbol = <<>>
    /\ candidates = <<>>
    /\ pc = "new"
    /\ op = Call("none", <<>>, PyStr(empty_symbol), NoState, <<>>)
    /\ result = Returned(None)
    /\ empty_cells = <<>>
    /\ cell_index = 0
    /\ filled_cells = {}
    /\ num_cells_reduced = 0
    /\ symbol0 = <<>>
    /\ touched = {}
    /\ copied_board = NoBoard
    /\ config = [slot \in Slots |-> NoConfig]
    /\ attempts = <<>>

\* board = Board(symbols=...): the default empty_symbol, no initial_state.
NewBoard ==
    /\ pc = "new"
    /\ \E n \in 0..MaxSize : \E symbols_arg \in SymbolsOfSize(n) :
        LET cfg == board_config(symbols_arg, PyStr(empty_symbol))
        IN  /\ config' = [config EXCEPT ![0] = cfg]
            /\ board' = initialize_cells_sized(cfg)
            /\ symbol' = [c \in 1..cfg.size * cfg.size |-> None]
            /\ candidates' = [c \in 1..cfg.size * cfg.size |-> None]
            /\ op' = Call("construct", symbols_arg, PyStr(empty_symbol), NoState, <<>>)
    /\ pc' = "idle"
    /\ result' = Returned(None)
    /\ symbol0' = symbol'
    /\ UNCHANGED <<empty_cells, cell_index, filled_cells, num_cells_reduced, touched,
                   copied_board, attempts>>

\* board.cells[row][col].symbol = s, once, with one of the first two symbols.
WriteSymbol ==
    /\ pc = "idle" /\ touched = {}
    /\ \E c \in DOMAIN symbol : \E i \in 1..2 :
        /\ i <= config[0].size
        /\ symbol' = [symbol EXCEPT ![c] = config[0].symbols[i]]
        /\ touched' = {c}
    /\ UNCHANGED <<board, candidates, pc, op, result, empty_cells, cell_index,
                   filled_cells, num_cells_reduced, symbol0, copied_board, config,
                   attempts>>

NextNew == NewBoard \/ WriteSymbol

SpecNew == InitNew /\ [][NextNew]_vars

\* The cells of a group, and whether a group table is a partition of the
\* board's cells into n groups of n cells.
Members(table, g) == {table[g][i] : i \in 1..Len(table[g])}
Partitions(table, n) ==
    /\ Cardinality(DOMAIN table) = n
    /\ \A g \in DOMAIN table :
          Len(table[g]) = n /\ Cardinality(Members(table, g)) = n
    /\ \A c \in 1..n * n :
          Cardinality({g \in DOMAIN table : c \in Members(table, g)}) = 1

\* C21: for every alphabet size N, after construction every cell belongs to
\* exactly one row group, one column group and one box group, there are
\* exactly N groups of each family, every group contains exactly N cells, and
\* the membership never changes afterwards.
C21_GroupsPartitionTheGrid ==
    /\ [](pc = "idle" =>
            /\ Partitions(board.rows, config[0].size)
            /\ Partitions(board.cols, config[0].size)
            /\ Partitions(board.boxes, config[0].size))
    /\ [][pc = "idle" => board' = board]_vars

\* C21 witness: a board whose boxes are not square (2 by 3) has been built and
\* a cell of it has been written.
C21_Witness ==
    /\ pc = "idle" /\ touched # {}
    /\ config[0].size = 6 /\ config[0].num_bands = 2 /\ config[0].num_stacks = 3
    /\ Members(board.boxes, 1) = {3, 4, 9, 10, 15, 16}

\* C22: for every input symbol collection, the grid's alphabet is sorted and
\* contains no repeated symbol, and the grid dimension N equals the number of
\* distinct normalized symbols.
C22_AlphabetSortedDistinct ==
    pc = "idle" =>
        /\ \A i, j \in 1..Len(config[0].symbols) :
              i < j => ord(config[0].symbols[i]) < ord(config[0].symbols[j])
        /\ config[0].size = Cardinality({str(v) : v \in Range(op.symbols)})

\* What the constructor does establish: the alphabet is the sorted list of the
\* str forms of the values given, repeated values included, and N is its length.
C22_AlphabetSortedWithRepeats ==
    pc = "idle" =>
        /\ \A i, j \in 1..Len(config[0].symbols) :
              i < j => ord(config[0].symbols[i]) <= ord(config[0].symbols[j])
        /\ \A t \in Range(SymbolPool) :
              Cardinality({i \in 1..Len(config[0].symbols) : config[0].symbols[i] = t})
                  = Cardinality({i \in 1..Len(op.symbols) : str(op.symbols[i]) = t})
        /\ config[0].size = Len(op.symbols)

-----------------------------------------------------------------------------
(* Claims about the alternatives reduce_cell tries, checked under SpecReduceCell *)

\* reduce_cell, line 74: the possible_candidates of the call that has returned,
\* computed on the grid as it was when reduce_cell was called.
possible_candidates == calculate_cell_candidates(symbol0, board, op.cell)

\* C23: for an assigned cell, the legal-candidate set used by reduce_cell never
\* contains the cell's own current symbol, so it has at most N-1 members and
\* reduce_cell never runs a trial with the cell's true value.
C23_OwnSymbolNeverTried ==
    (ReduceCellDone /\ symbol0[op.cell] # None) =>
        /\ symbol0[op.cell] \notin possible_candidates
        /\ Cardinality(possible_candidates) <= size - 1

\* C23 witness: reduce_cell has run its trials on an assigned cell whose symbol
\* no peer holds, and every trial failed: the cell was reduced.
C23_Witness ==
    /\ ReduceCellDone /\ symbol0[op.cell] # None
    /\ \A c \in Peers(board, op.cell) : symbol0[c] # symbol0[op.cell]
    /\ possible_candidates # {}
    /\ result = TRUE

-----------------------------------------------------------------------------
(* Specification SpecValid: Solver(board).is_candidate_valid(candidate, cell) *)

\* is_candidate_valid called with a symbol of the alphabet and a cell of the board.
IsCandidateValid ==
    /\ pc = "idle"
    /\ \E cell \in BoardCells, candidate \in Range(symbols) :
        /\ result' = Returned(is_candidate_valid(symbol, board, candidate, cell))
        /\ op' = [name |-> "is_candidate_valid", cell |-> cell, count |-> 0,
                  candidate |-> candidate]
    /\ pc' = "done"
    /\ UNCHANGED <<board, symbol, candidates, empty_cells, cell_index, filled_cells,
                   num_cells_reduced, symbol0, touched, copied_board, config, attempts>>

NextValid == IsCandidateValid

SpecValid == Init /\ [][NextValid]_vars

ValidDone == pc = "done" /\ op.name = "is_candidate_valid"

\* C24: is_candidate_valid(s, cell) is true exactly when no cell other than
\* `cell` in its row, column or box is assigned s; the symbol currently held by
\* `cell` itself is ignored, so a cell's own symbol is reported valid when no
\* peer holds it.
C24_ValidIffNoPeerHolds ==
    ValidDone =>
        /\ result.value = (\A c \in Peers(board, op.cell) : symbol[c] # op.candidate)
        /\ (/\ symbol[op.cell] = op.candidate
            /\ \A c \in Peers(board, op.cell) : symbol[c] # op.candidate)
               => result.value = TRUE

\* C24 witness: the check was made for the symbol the cell itself holds, no
\* peer holds it, and it was reported valid.
C24_Witness ==
    /\ ValidDone
    /\ symbol[op.cell] = op.candidate
    /\ \A c \in Peers(board, op.cell) : symbol[c] # op.candidate
    /\ result.value = TRUE

\* C24, the other case: a peer in the same box only (a different row and a
\* different column) holds the symbol, and it was reported invalid.
C24_BoxPeerRejected ==
    /\ ValidDone
    /\ result.value = FALSE
    /\ \A c \in Peers(board, op.cell) :
          symbol[c] = op.candidate =>
              cell_row(c) # cell_row(op.cell) /\ cell_col(c) # cell_col(op.cell)

-----------------------------------------------------------------------------
(* Claims about the backtracking loop of solve_backtrack *)

\* The grids whose search is followed to its end: the solved grid, possibly
\* with one cell of the first row overwritten, with any of the cells of
\* SearchBlanks (the cells of the first box) blanked.
SearchBlanks == SUBSET {1, 2, size + 1, size + 2}
SearchStates ==
    {[i \in 1..size * size |-> IF i \in E THEN empty_symbol ELSE s[i]] :
        s \in {SolvedState} \cup
                 {[SolvedState EXCEPT ![i] = w] : i \in CorruptIdx, w \in Range(symbols)},
        E \in SearchBlanks}

InitSearch == \E s \in SearchStates : InitBoard(s)

\* The program runs: a call that can be made is made, and a loop iteration or
\* return that can be taken is taken (each of them moves pc or the cursor).
SpecSolveFair == InitSearch /\ [][Next]_vars /\ WF_<<pc, cell_index>>(Next)

\* solve has been called (the loop is running or has returned).
SolveCalled == op.name = "solve" /\ pc \in {"loop", "done"}

\* The cell and the stored candidate index of entry j (counted from 1).
entry_cell(j) == empty_cells[j][1]
entry_cursor(j) == empty_cells[j][2]

\* The cells the search has assigned.
SearchAssigned == {entry_cell(j) : j \in {k \in 1..Len(empty_cells) : symbol[entry_cell(k)] # None}}

\* How far the search has got: the candidate indices of the entries before the
\* cursor and the index the scan of the entry at the cursor starts from, read
\* as the digits of a number (the first entry is the most significant), then
\* the cursor itself.
SearchRank(sym, ec, i) ==
    LET L == Len(ec)
        B == size + 1
        digit(j) == IF j < i + 1 THEN ec[j][2]
                    ELSE IF j = i + 1 THEN resume_index(sym, ec[j])
                    ELSE 0
        value[j \in 0..L] == IF j = 0 THEN 0 ELSE value[j - 1] * B + digit(j)
    IN  value[L] * (L + 2) + i + 1

\* C25: the backtracking loop of solve terminates on every finite grid: the
\* cursor eventually reaches i == length or i < 0, because every iteration
\* that does not end the search resumes after the candidate just undone, so
\* the search never returns to an assignment it has already left.
C25_SolveTerminates ==
    /\ (pc = "loop") ~> (cell_index >= Len(empty_cells) \/ cell_index < 0)
    /\ (op.name = "solve") ~> (pc = "done")
    /\ [][(pc = "loop" /\ cell_index' # cell_index /\ cell_index' >= 0) =>
            SearchRank(symbol', empty_cells', cell_index')
                > SearchRank(symbol, empty_cells, cell_index)]_<<pc, cell_index>>

\* C25 witness: the cursor has fallen below 0 after the search had assigned
\* and undone cells of a grid with several empty cells.
C25_Witness ==
    /\ pc = "loop" /\ op.name = "solve"
    /\ cell_index < 0
    /\ Len(empty_cells) >= 2
    /\ touched # {}

\* C26: at the head of every iteration with cursor i, every entry with index
\* < i has its cell assigned the candidate at that entry's stored cursor,
\* every entry with index > i has its cell unassigned and its cursor equal to
\* 0, and the return value is success exactly when the loop exits with
\* i == length.
C26_LoopInvariant ==
    /\ (pc = "loop" /\ op.name = "solve") =>
          \A j \in 1..Len(empty_cells) :
              /\ j < cell_index + 1 =>
                    symbol[entry_cell(j)] = candidates[entry_cell(j)][entry_cursor(j) + 1]
              /\ j > cell_index + 1 =>
                    symbol[entry_cell(j)] = None /\ entry_cursor(j) = 0
    /\ SolveDone => (result = (cell_index = Len(empty_cells)))

\* C26 witness: the cursor is back inside the sequence after two dead ends: an
\* entry after it had been assigned and is unassigned again.
C26_Witness ==
    /\ pc = "loop" /\ op.name = "solve"
    /\ cell_index >= 0 /\ Len(empty_cells) >= 3
    /\ \E j \in cell_index + 2..Len(empty_cells) : entry_cell(j) \in touched

\* C27: in every state reached during solve, no cell assigned by the search
\* holds the symbol of any other assigned cell in its row, column or box.
C27_SearchAssignmentConflictFree ==
    SolveCalled =>
        \A c \in SearchAssigned : \A d \in Peers(board, c) : symbol[d] # symbol[c]

\* C27 witness: the search has assigned two cells of the same box, on a grid
\* that holds a duplicate among the cells it was given.
C27_Witness ==
    /\ SolveCalled /\ ~NoDuplicate(symbol0, board)
    /\ \E c, d \in SearchAssigned : c # d /\ cell_box(c) = cell_box(d)

\* C28: solve never changes the symbol of a cell that was assigned when it was
\* called: during and after the search each such cell holds its entry symbol,
\* and only cells collected as unassigned at entry are ever written.
C28_GivenCellsNeverWritten ==
    SolveCalled =>
        /\ \A c \in BoardCells : symbol0[c] # None => symbol[c] = symbol0[c]
        /\ touched \subseteq {entry_cell(j) : j \in 1..Len(empty_cells)}
        /\ \A j \in 1..Len(empty_cells) : symbol0[entry_cell(j)] = None

\* C28 witness: the search has written several of the cells it collected and
\* has undone one of them, on a grid with given cells in the same row.
C28_Witness ==
    /\ SolveCalled
    /\ Cardinality(touched) >= 2
    /\ \E c \in touched :
          /\ symbol[c] = None
          /\ \E d \in Peers(board, c) : symbol0[d] # None /\ cell_row(d) = cell_row(c)

-----------------------------------------------------------------------------
(* Specification SpecSeed: board.seed_empty_board() *)

\* seed_empty_board, lines 255-258: some cell of the board holds a symbol.
board_not_empty(sym, b) == \E c \in Range(board_cells(b)) : sym[c] # None

\* seed_empty_board, lines 268-269: the shuffled symbols placed down a column.
seed_column(sym, column, shuffled) ==
    [c \in Refs |->
        IF \E i \in 1..Len(column) : column[i] = c
        THEN shuffled[CHOOSE i \in 1..Len(column) : column[i] = c]
        ELSE sym[c]]

\* seed_empty_board, lines 275-277: the other cells of the cell's box that lie
\* in the cell's row.
remaining_box_cells(b, cell) ==
    SelectSeq(b.boxes[cell_box(cell)],
              LAMBDA c : cell_row(c) = cell_row(cell) /\ cell_col(c) # cell_col(cell))

RECURSIVE seed_box_mates(_, _, _, _)
\* seed_empty_board, lines 283-286: each remaining cell gets random.choice of
\* its candidates; random.choice of an empty list raises IndexError.
seed_box_mates(sym, b, remaining, used_symbols) ==
    IF remaining = <<>>
    THEN {[raised |-> FALSE, symbol |-> sym, used_symbols |-> used_symbols]}
    ELSE LET remaining_cell == Head(remaining)
             cands == calculate_cell_candidates(sym, b, remaining_cell)
         IN  IF cands = {}
             THEN {[raised |-> TRUE, symbol |-> sym, used_symbols |-> used_symbols]}
             ELSE UNION {seed_box_mates([sym EXCEPT ![remaining_cell] = v], b,
                                        Tail(remaining), Append(used_symbols, v)) :
                            v \in cands}

\* remaining_symbols without the filter: every symbol of the alphabet.
remaining_symbols_unfiltered(used_symbols) == symbols

\* seed_empty_board, line 289: the symbols not used in the row yet.
remaining_symbols(used_symbols) ==
    SelectSeq(symbols, LAMBDA v : v \notin Range(used_symbols))

RECURSIVE seed_row(_, _, _)
\* seed_empty_board, lines 293-295: every empty cell of the row pops the last
\* of the remaining symbols; pop from an empty list raises IndexError.
seed_row(sym, row, stack) ==
    IF row = <<>> THEN [raised |-> FALSE, symbol |-> sym]
    ELSE IF sym[Head(row)] # None THEN seed_row(sym, Tail(row), stack)
    ELSE IF stack = <<>> THEN [raised |-> TRUE, symbol |-> sym]
    ELSE seed_row([sym EXCEPT ![Head(row)] = stack[Len(stack)]], Tail(row),
                  SubSeq(stack, 1, Len(stack) - 1))

\* Board.seed_empty_board: every [raised, symbol] the call can end with, over
\* the random column, the shuffles and the random choices.
seed_empty_board(sym, b) ==
    IF board_not_empty(sym, b) THEN {[raised |-> FALSE, symbol |-> sym]}
    ELSE UNION {
            LET column == b.cols[column_index]
                cell == column[i]
                seeded == seed_column(sym, column, shuffled)
            IN  UNION {
                    IF m.raised THEN {[raised |-> TRUE, symbol |-> m.symbol]}
                    ELSE {seed_row(m.symbol, b.rows[cell_row(cell)], stack) :
                             stack \in shuffle(remaining_symbols(m.used_symbols))} :
                        m \in seed_box_mates(seeded, b, remaining_box_cells(b, cell),
                                             <<seeded[cell]>>)} :
            column_index \in DOMAIN b.cols,
            shuffled \in shuffle(symbols),
            i \in 1..size}

\* The grids seed_empty_board is called on: the empty grid, grids with one
\* assigned cell, and the complete grid.
SeedStates ==
    {EmptyState, SolvedState} \cup
        {[EmptyState EXCEPT ![i] = w] : i \in {1, size + 2, size * size}, w \in Range(symbols)}

InitSeed == \E s \in SeedStates : InitBoard(s)

SeedEmptyBoard ==
    /\ pc = "idle"
    /\ \E o \in seed_empty_board(symbol, board) :
        /\ symbol' = o.symbol
        /\ result' = o.raised
        /\ pc' = IF o.raised THEN "raised" ELSE "done"
        /\ touched' = {c \in Refs : o.symbol[c] # symbol[c]}
    /\ op' = [name |-> "seed_empty_board", cell |-> 0, count |-> 0]
    /\ symbol0' = symbol
    /\ UNCHANGED <<board, candidates, empty_cells, cell_index, filled_cells,
                   num_cells_reduced, copied_board, config, attempts>>

NextSeed == SeedEmptyBoard

SpecSeed == InitSeed /\ [][NextSeed]_vars

SeedDone == op.name = "seed_empty_board" /\ pc \in {"done", "raised"}

\* The assigned cells of the board under test.
AssignedCells == {c \in BoardCells : symbol[c] # None}

C29_NotEmptyWitness ==
    /\ SeedDone /\ Cardinality(AssignedCells) = 1 /\ touched = {}

-----------------------------------------------------------------------------
(* Specification SpecCreate: Sudoku(symbols, initial_state, difficulty).create(),
   one step per statement, the reduction one step per loop iteration *)

\* A grid without a duplicate that has no completion: (0, 0) can only hold "1",
\* which its column already holds.
UnsolvableState ==
    [SolvedState EXCEPT ![1] = empty_symbol, ![size + 3] = empty_symbol, ![size + 1] = "1"]

\* The initial states given to Sudoku: the solved grid, the solved grid with
\* one and with two cells blanked, and the grid that has no completion.
CreateStates ==
    {SolvedState,
     [SolvedState EXCEPT ![1] = empty_symbol],
     [SolvedState EXCEPT ![1] = empty_symbol, ![size + 2] = empty_symbol],
     UnsolvableState}

\* The reduction percentages of the model, in hundredths. With those of
\* difficulties_reductions (37, 33, 28, 25) a 4x4 grid is stripped of 11 or 12
\* cells; the percentages here leave one or two cells to remove.
Ratios == {88, 94}

\* create, line 49: int(reduction_percentage * num_cells_total)
desired_num_filled_cells(ratio, num_cells_total) == (ratio * num_cells_total) \div 100

\* create, line 52: the argument of reduce_n_cells.
num_to_reduce(ratio, num_cells_total) ==
    num_cells_total - desired_num_filled_cells(ratio, num_cells_total)

InitCreate ==
    /\ board = NoBoard
    /\ symbol = FreshHeap
    /\ candidates = FreshHeap
    /\ pc = "new"
    /\ op = [name |-> "none", cell |-> 0, count |-> 0, ratio |-> 0]
    /\ result = FALSE
    /\ empty_cells = <<>>
    /\ cell_index = 0
    /\ filled_cells = {}
    /\ num_cells_reduced = 0
    /\ symbol0 = symbol
    /\ touched = {}
    /\ copied_board = NoBoard
    /\ config = [slot \in Slots |-> NoConfig]
    /\ attempts = [c \in Refs |-> 0]

\* create, lines 36-40: self.solution = Board(symbols, initial_state, empty_symbol)
CreateBoard ==
    /\ pc = "new"
    /\ \E s \in CreateStates, ratio \in Ratios :
        LET o == board_init([i \in 1..size |-> PyStr(symbols[i])], State(Chars(s)),
                            PyStr(empty_symbol))
        IN  /\ board' = o.board
            /\ symbol' = o.symbol
            /\ config' = [config EXCEPT ![0] = o.config]
            /\ op' = [name |-> "Board", cell |-> 0, count |-> 0, ratio |-> ratio]
    /\ pc' = "built"
    /\ symbol0' = symbol'
    /\ UNCHANGED <<candidates, result, empty_cells, cell_index, filled_cells,
                   num_cells_reduced, touched, copied_board, attempts>>

\* create, line 41: Solver(self.solution).solve(); the value it returns is
\* dropped by create and kept here as `result`.
CreateSolve ==
    /\ pc = "built"
    /\ \E o \in solve(symbol, candidates, board) :
        /\ symbol' = o.symbol
        /\ candidates' = o.candidates
        /\ result' = o.ret
    /\ pc' = "solved"
    /\ op' = [op EXCEPT !.name = "solve"]
    /\ UNCHANGED <<board, empty_cells, cell_index, filled_cells, num_cells_reduced,
                   symbol0, touched, copied_board, config, attempts>>

\* create, line 44: self.game = self.solution.copy()
CreateCopy ==
    /\ pc = "solved"
    /\ LET cp == copy_to(symbol, candidates, board, 2)
       IN  /\ copied_board' = cp.board
           /\ symbol' = cp.symbol
           /\ candidates' = cp.candidates
    /\ config' = [config EXCEPT ![2] = copy_config(config[0])]
    /\ pc' = "copied"
    /\ op' = [op EXCEPT !.name = "copy"]
    /\ UNCHANGED <<board, result, empty_cells, cell_index, filled_cells,
                   num_cells_reduced, symbol0, touched, attempts>>

\* create, lines 47-52: Reducer(self.game).reduce_n_cells(...) up to its loop.
CreateReduceCall ==
    /\ pc = "copied"
    /\ ReduceNCallOn(copied_board,
                     num_to_reduce(op.ratio, config[2].size * config[2].size), op)

\* An iteration of reduce_n_cells of Reducer(self.game).
CreateReduceIter ==
    /\ copied_board # NoBoard
    /\ ReduceNIterOn(copied_board)

NextCreate == CreateBoard \/ CreateSolve \/ CreateCopy \/ CreateReduceCall \/ CreateReduceIter

SpecCreate == InitCreate /\ [][NextCreate]_vars

\* create has returned; the cells of the game grid and its assigned cells.
CreateDone == pc = "done" /\ op.name = "reduce_n_cells" /\ copied_board # NoBoard
GameCells == Range(board_cells(copied_board))
GameAssigned == {c \in GameCells : symbol[c] # None}

\* The cell of the solution grid at the position of a cell of the game grid.
SolutionCell(c) == board.cells[<<cell_row(c), cell_col(c)>>]

\* C30: after the generation orchestrator finishes, the solution grid is
\* unchanged by the reduction phase, every assigned cell of the game grid holds
\* the same symbol as the solution grid at that position, and the game grid
\* has at least int(ratio * N*N) assigned cells for the chosen ratio.
C30_GameIsReducedSolution ==
    CreateDone =>
        /\ \A c \in BoardCells : symbol[c] = symbol0[c]
        /\ \A c \in GameAssigned : symbol[c] = symbol[SolutionCell(c)]
        /\ Cardinality(GameAssigned) >= desired_num_filled_cells(op.ratio, size * size)

\* What create does establish: the first two parts always, the number of
\* assigned cells when the solve of the solution grid had succeeded.
C30_GameIsReducedSolutionWhenSolved ==
    CreateDone =>
        /\ \A c \in BoardCells : symbol[c] = symbol0[c]
        /\ \A c \in GameAssigned : symbol[c] = symbol[SolutionCell(c)]
        /\ result = TRUE =>
              Cardinality(GameAssigned) >= desired_num_filled_cells(op.ratio, size * size)

\* create has finished on a grid it solved: cells were removed from the game
\* grid, down to the number wanted.
C30_Witness ==
    /\ CreateDone /\ result = TRUE
    /\ num_cells_reduced >= 1
    /\ Cardinality(GameAssigned) = desired_num_filled_cells(op.ratio, size * size)

\* create has finished on the grid without completion.
C30_UnsolvedWitness ==
    /\ CreateDone /\ result = FALSE
    /\ Cardinality(GameAssigned) < desired_num_filled_cells(op.ratio, size * size)

====
